---------------------------- MODULE Spec2Model ----------------------------
(***************************************************************************)
(* A model of the pdnnet transport library: the thread-per-connection      *)
(* echo server (echoserver.hh), the same accept loop of ackserver++        *)
(* (event_loop), the generic ipv4_server accept loop (server.hh), the      *)
(* socket reader/writer loops they use (socket.hh, client.hh), the          *)
(* thread_executor task pool (executor.hh) and the TLS client of           *)
(* httpsclient (httpsclient.cc, tls.hh).                                   *)
(***************************************************************************)
EXTENDS Integers, Sequences, FiniteSets, TLC

(***************************************************************************)
(* Bounds of the model.                                                    *)
(***************************************************************************)
\* number of client connections made against the server
MaxClients == 3
\* largest max_concurrency (std::thread::hardware_concurrency()) tried
MaxThreads == 2
\* longest client payload, in bytes
MaxLen == 2
\* stop() calls made while the server object lives
MaxStops == 2
\* largest number of worker threads of a thread_executor
MaxWorkers == 2
\* tasks posted to a thread_executor
MaxTasks == 3
\* bytes the handshake token buffer holds (tls_record_size_limit, scaled down)
MaxToken == 3
\* InitializeSecurityContext calls of one handshake
MaxCalls == 3
\* socket handles the OS hands out to unique_socket objects
MaxHandles == 2

\* PDNNET_SOCKET_READ_SIZE, the default read buffer size of socket_reader
socket_read_size == 512

Clients == 1..MaxClients
\* threads that call start(): the server thread and one other API user
Callers == {1, 2}
\* port values: 0 asks for the next free port, 1 is the port the OS assigns
Ports == {0, 1}

VARIABLES
  obj,            \* the object modelled: "echoserver", "ipv4_server", "event_loop"
                  \* (what runs the accept loop) or "thread_executor"
  params,         \* server_params given to start(): port, max_pending, max_concurrency
  msglen,         \* length of the payload each client sends
  running_,       \* std::atomic_bool running_; bool running_ of thread_executor
  socket_,        \* listening unique_socket: "bad", "bound", "listening"
  address_,       \* port of sockaddr_in address_, host byte order
  max_threads_,   \* unsigned int max_threads_
  max_pending_,   \* unsigned int max_pending_
  thread_queue_,  \* std::deque<std::thread>, a thread is named by its connection
  pc,             \* pc[t]: where caller t is inside start(), or how its last call ended;
                  \* where caller t is inside post() or stop() of thread_executor
  cli_socket,     \* cli_socket[t]: connection held by the loop local cli_socket, 0 if none
  starts,         \* starts[t]: start() calls caller t still makes
  stops,          \* stop() calls still made
  pending,        \* accept queue of the listening socket
  client,         \* client[c]: echo_client_connect of connection c
  thread,         \* thread[c]: the connection thread serving connection c
  wire,           \* wire[c]: the two byte streams and the two ends of connection c
  tasks_,         \* std::deque<task_type> tasks_, a task is named by its number
  threads_,       \* std::vector<std::thread> threads_: threads_[w] is worker w
  posted,         \* number of tasks post() has appended so far
  tls_pc,         \* where the TLS client is inside the call it makes
  tls_log,        \* the library and socket calls made so far, with their results
  ctx_buffer,     \* char ctx_buffer[tls_record_size_limit]; a byte is named by its
                  \* position in the stream received from the peer, 0 is unset
  ctx_bufsize,    \* unsigned long ctx_bufsize
  building_context, \* bool building_context
  status,         \* status of the last InitializeSecurityContext call
  input_bufs,     \* input_bufs[1] after the call: cbBuffer (0 if the type stayed
                  \* SECBUFFER_EMPTY) and the bytes the call left unprocessed
  handle_,        \* handle_[w]: native handle held by wrapper w, 0 if zeroed
  freed,          \* freed[h]: FreeCredentialsHandle / DeleteSecurityContext calls
                  \* made on the acquired handle h
  allow_retry_,   \* bool allow_retry_ of tls_reader_writer_base
  tls_n_remain,   \* n_remain of tls_writer::operator()
  tls_out,        \* the bytes SSL_write has taken; the bytes tls_reader wrote to out
  tls_error       \* the optional_error a TLS call returned: "" is no error,
                  \* "none" is not returned yet

srv_vars == <<running_, socket_, address_, max_threads_, max_pending_, thread_queue_>>
loop_vars == <<pc, cli_socket, starts>>
conn_vars == <<pending, client, thread, wire>>
cfg_vars == <<obj, params, msglen>>
exec_vars == <<tasks_, threads_, posted>>
schannel_vars ==
  <<ctx_buffer, ctx_bufsize, building_context, status, input_bufs, handle_, freed>>
ssl_vars == <<allow_retry_, tls_n_remain, tls_out, tls_error>>
tls_vars ==
  <<tls_pc, tls_log, ctx_buffer, ctx_bufsize, building_context, status, input_bufs,
    handle_, freed, ssl_vars>>
\* what no step of a server or of a client changes
fixed_vars == <<cfg_vars, exec_vars, tls_vars>>
\* what no step of the TLS client changes
net_vars == <<cfg_vars, srv_vars, loop_vars, stops, conn_vars, exec_vars>>
vars == <<net_vars, tls_vars>>

(***************************************************************************)
(* Helpers.                                                                *)
(***************************************************************************)
Min(a, b) == IF a < b THEN a ELSE b

Prefix(s, n) == SubSeq(s, 1, n)

Suffix(s, n) == SubSeq(s, n + 1, Len(s))

\* the message of client c: bytes tagged with the client, as "hello world {i}" is
Message(c, n) == [k \in 1..n |-> <<c, k>>]

\* the reply handle_client writes, "Acknowledged message received"
AckMessage == <<<<0, 1>>, <<0, 2>>>>

\* poll(handle, POLLIN, timeout) & POLLIN: data to read, or end of stream
PollIn(buf, peer_closed) == buf # <<>> \/ peer_closed

\* the byte count one ::read(handle, buf, buf_size) returns
NRead(buf, buf_size) == Min(Len(buf), buf_size)

\* client_reader{client} passes close_read = false as socket_reader's second
\* constructor argument, which is buf_size: the bool converts to 0
client_buf_size == IF FALSE THEN 1 ELSE 0

\* states of pc[t] in which caller t is not inside start()
Outside == {"idle", "EXIT_SUCCESS", "EXIT_FAILURE", "throw"}

\* closing a listening socket resets the connections still in its accept queue
DropPending(w) ==
  [c \in Clients |->
     IF \E k \in 1..Len(pending) : pending[k] = c
       THEN [w[c] EXCEPT !.sclosed = TRUE] ELSE w[c]]

(***************************************************************************)
(* Initial states.                                                         *)
(***************************************************************************)
\* n clients will connect, none has yet; no connection thread exists
InitConn(n) ==
  /\ pending = <<>>
  /\ client = [c \in Clients |->
                 [pc |-> IF c <= n THEN "connect" ELSE "unused", n_sent |-> 0, ss |-> <<>>]]
  /\ thread = [c \in Clients |-> [pc |-> "none", stream |-> <<>>, n_sent |-> 0]]
  /\ wire = [c \in Clients |->
               [c2s |-> <<>>, s2c |-> <<>>, cclosed |-> FALSE, sclosed |-> FALSE]]

\* echoserver() : running_{} {}: running_ is false, socket_ is the bad handle,
\* the queue is empty; address_ and the two limits are left uninitialized
InitEcho ==
  /\ obj = "echoserver"
  /\ running_ = FALSE
  /\ socket_ = "bad"
  /\ address_ \in Ports
  /\ max_threads_ \in 0..MaxThreads
  /\ max_pending_ \in {0, MaxClients}
  /\ thread_queue_ = <<>>
  /\ pc = [t \in Callers |-> "idle"]
  /\ cli_socket = [t \in Callers |-> 0]

\* ipv4_server() : running_{} {}: as echoserver, without a thread queue
InitIpv4 ==
  /\ obj = "ipv4_server"
  /\ running_ = FALSE
  /\ socket_ = "bad"
  /\ address_ \in Ports
  /\ max_threads_ = 0
  /\ max_pending_ \in {0, MaxClients}
  /\ thread_queue_ = <<>>
  /\ pc = [t \in Callers |-> "idle"]
  /\ cli_socket = [t \in Callers |-> 0]

\* main of ackserver++: the socket is bound and listening, the queue is empty
\* and event_loop(socket, thread_queue) is entered with max_threads =
\* std::thread::hardware_concurrency()
InitEventLoop ==
  /\ obj = "event_loop"
  /\ running_ = FALSE
  /\ socket_ = "listening"
  /\ address_ = params.port
  /\ max_threads_ = params.max_concurrency
  /\ max_pending_ = params.max_pending
  /\ thread_queue_ = <<>>
  /\ pc = [t \in Callers |-> IF t = 1 THEN "accept" ELSE "idle"]
  /\ cli_socket = [t \in Callers |-> 0]

\* a program that makes no Schannel handshake
NoSchannel ==
  /\ ctx_buffer = <<>>
  /\ ctx_bufsize = 0
  /\ building_context = FALSE
  /\ status = "none"
  /\ input_bufs = [cbBuffer |-> 0, bytes |-> <<>>]
  /\ handle_ = <<>>
  /\ freed = <<>>

\* a program that uses no OpenSSL layer
NoSsl ==
  /\ allow_retry_ = TRUE
  /\ tls_n_remain = 0
  /\ tls_out = <<>>
  /\ tls_error = "none"

\* a program that makes no TLS connection
NoTls ==
  /\ tls_pc = "none"
  /\ tls_log = <<>>
  /\ NoSchannel
  /\ NoSsl

\* a program without a thread_executor
NoExecutor ==
  /\ tasks_ = <<>>
  /\ threads_ = <<>>
  /\ posted = 0

\* the run of one program: n clients with messages of a length in lens, a
\* hardware concurrency in hw, the start() calls each caller makes and the
\* stop() calls made; the tests ask for port 0 and a backlog of n - 1
Scenario(n, lens, hw, calls, nstops) ==
  /\ params \in [port : {0}, max_pending : {n - 1}, max_concurrency : hw]
  /\ msglen \in lens
  /\ starts = calls
  /\ stops = nstops
  /\ InitConn(n)
  /\ NoExecutor
  /\ NoTls

(***************************************************************************)
(* The client of the tests: echo_client_connect.                           *)
(***************************************************************************)
\* where a socket_writer::read call that has sent n_sent bytes of text is:
\* while (n_remain) is left as soon as nothing remains
AfterWrite(text, n_sent, more, finished) == IF n_sent = Len(text) THEN finished ELSE more

\* client.connect("localhost", port): completes once the listening socket has
\* room in its accept queue; the connections are numbered in the order in
\* which the OS queues them
ClientConnect(c) ==
  /\ client[c].pc = "connect"
  /\ \A d \in 1..(c - 1) : client[d].pc # "connect"
  /\ socket_ = "listening"
  /\ Len(pending) <= max_pending_
  /\ pending' = Append(pending, c)
  /\ client' = [client EXCEPT ![c].pc = AfterWrite(Message(c, msglen), 0, "write", "wait")]
  /\ UNCHANGED <<fixed_vars, srv_vars, loop_vars, stops, thread, wire>>

\* client_writer{client}.read(message): one write of n_last of the n_remain
\* bytes, which may be short; close_write is false, so no shutdown follows
ClientWrite(c) ==
  /\ client[c].pc = "write"
  /\ LET text == Message(c, msglen)
         n_sent == client[c].n_sent
         n_remain == Len(text) - n_sent
     IN \E n_last \in 1..n_remain :
          /\ wire' = [wire EXCEPT ![c].c2s =
                        @ \o SubSeq(text, n_sent + 1, n_sent + n_last)]
          /\ client' = [client EXCEPT
                          ![c].n_sent = n_sent + n_last,
                          ![c].pc = AfterWrite(text, n_sent + n_last, "write", "wait")]
  /\ UNCHANGED <<fixed_vars, srv_vars, loop_vars, stops, pending, thread>>

\* wait_pollin(client.socket(), timeout): readable, or the timeout elapses and
\* the error text is returned (the client socket is closed on return)
ClientWait(c) ==
  /\ client[c].pc = "wait"
  /\ IF PollIn(wire[c].s2c, wire[c].sclosed)
       THEN /\ client' = [client EXCEPT ![c].pc = "read"]
            /\ wire' = wire
       ELSE /\ client' = [client EXCEPT ![c].pc = "timeout"]
            /\ wire' = [wire EXCEPT ![c].cclosed = TRUE]
  /\ UNCHANGED <<fixed_vars, srv_vars, loop_vars, stops, pending, thread>>

\* one iteration of socket_reader::write: the 1 ms poll, then one read of at
\* most buf_size bytes appended to out; returns [n_read, out, buf], n_read = 0
\* when the poll timed out or the read returned zero bytes
SocketReaderStep(buf, peer_closed, buf_size, out) ==
  IF ~PollIn(buf, peer_closed)
    THEN [n_read |-> 0, out |-> out, buf |-> buf]
    ELSE LET n_read == NRead(buf, buf_size)
         IN [n_read |-> n_read, out |-> out \o Prefix(buf, n_read),
             buf |-> Suffix(buf, n_read)]

\* return pdnnet::client_reader{client}: one iteration of the read loop; at
\* its end the string is returned and the client socket is closed
ClientRead(c) ==
  /\ client[c].pc = "read"
  /\ LET r == SocketReaderStep(wire[c].s2c, wire[c].sclosed, client_buf_size,
                               client[c].ss)
     IN /\ client' = [client EXCEPT
                        ![c].ss = r.out,
                        ![c].pc = IF r.n_read = 0 THEN "done" ELSE "read"]
        /\ wire' = [wire EXCEPT ![c].s2c = r.buf, ![c].cclosed = (r.n_read = 0)]
  /\ UNCHANGED <<fixed_vars, srv_vars, loop_vars, stops, pending, thread>>

(***************************************************************************)
(* The connection thread: the lambda of echoserver::start, handle_client   *)
(* of ackserver++.                                                         *)
(***************************************************************************)
\* stream << socket_reader{socket}: one iteration of the read loop
ThreadRead(c) ==
  /\ thread[c].pc = "read"
  /\ LET r == SocketReaderStep(wire[c].c2s, wire[c].cclosed, socket_read_size,
                               thread[c].stream)
     IN /\ thread' = [thread EXCEPT
                        ![c].stream = r.out,
                        ![c].pc = IF r.n_read = 0 THEN "write" ELSE "read"]
        /\ wire' = [wire EXCEPT ![c].c2s = r.buf]
  /\ UNCHANGED <<fixed_vars, srv_vars, loop_vars, stops, pending, client>>

\* what the thread writes back: the bytes read (echoserver), the fixed
\* acknowledgement (handle_client)
ReplyText(c) == IF obj = "event_loop" THEN AckMessage ELSE thread[c].stream

\* stream >> socket_writer{socket}: one write per step; when nothing remains
\* the lambda ends and unique_socket closes the handle
ThreadWrite(c) ==
  /\ thread[c].pc = "write"
  /\ LET text == ReplyText(c)
         n_sent == thread[c].n_sent
         n_remain == Len(text) - n_sent
     IN IF n_remain = 0
          THEN /\ thread' = [thread EXCEPT ![c].pc = "finished"]
               /\ wire' = [wire EXCEPT ![c].sclosed = TRUE]
          ELSE \E n_last \in 1..n_remain :
                 /\ wire' = [wire EXCEPT ![c].s2c =
                               @ \o SubSeq(text, n_sent + 1, n_sent + n_last)]
                 /\ thread' = [thread EXCEPT ![c].n_sent = n_sent + n_last]
  /\ UNCHANGED <<fixed_vars, srv_vars, loop_vars, stops, pending, client>>

(***************************************************************************)
(* The thread queue of echoserver::start and event_loop.                   *)
(***************************************************************************)
\* a capacity check that is off by one
AtCapacityLate(queue, max_threads) == Len(queue) = max_threads + 1

\* thread_queue_.size() == max_threads_
AtCapacity(queue, max_threads) == Len(queue) = max_threads

\* thread_queue_.front()
Front(queue) == Head(queue)

\* thread_queue_.pop_front()
PopFront(queue) == Tail(queue)

\* the new thread put at the front of the queue
EmplaceFront(queue, c) == <<c>> \o queue

\* thread_queue_.emplace_back(std::thread{...})
EmplaceBack(queue, c) == Append(queue, c)

(***************************************************************************)
(* echoserver::start, one action per step of caller t.                     *)
(***************************************************************************)
\* a start() that does not look at running_
EchoStartUnchecked(t) ==
  /\ obj = "echoserver"
  /\ pc[t] \in Outside
  /\ starts[t] > 0
  /\ starts' = [starts EXCEPT ![t] = @ - 1]
  /\ pc' = [pc EXCEPT ![t] = "set_state"]
  /\ UNCHANGED <<fixed_vars, srv_vars, cli_socket, stops, conn_vars>>

\* start(): "cannot start while running"
EchoStart(t) ==
  /\ obj = "echoserver"
  /\ pc[t] \in Outside
  /\ starts[t] > 0
  /\ starts' = [starts EXCEPT ![t] = @ - 1]
  /\ pc' = [pc EXCEPT ![t] = IF running_ THEN "EXIT_FAILURE" ELSE "set_state"]
  /\ UNCHANGED <<fixed_vars, srv_vars, cli_socket, stops, conn_vars>>

\* set_state: new socket (the old handle, if any, is closed), address with the
\* requested port, the two limits, bind
EchoSetStateBind(t) ==
  /\ obj = "echoserver"
  /\ pc[t] = "set_state"
  /\ socket_' = "bound"
  /\ address_' = params.port
  /\ max_threads_' = params.max_concurrency
  /\ max_pending_' = params.max_pending
  /\ pending' = <<>>
  /\ wire' = DropPending(wire)
  /\ pc' = [pc EXCEPT ![t] = "getsockname"]
  /\ UNCHANGED <<fixed_vars, running_, thread_queue_, cli_socket, starts, stops,
                 client, thread>>

\* a getsockname that leaves the address as bind was given it
EchoSetStateNoGetsockname(t) ==
  /\ obj = "echoserver"
  /\ pc[t] = "getsockname"
  /\ pc' = [pc EXCEPT ![t] = IF socket_ = "bad" THEN "throw" ELSE "listen"]
  /\ UNCHANGED <<fixed_vars, srv_vars, cli_socket, starts, stops, conn_vars>>

\* set_state: getsockname resolves port 0 to the port the OS assigned; it
\* fails on a bad handle and set_state throws
EchoSetStateGetsockname(t) ==
  /\ obj = "echoserver"
  /\ pc[t] = "getsockname"
  /\ IF socket_ = "bad"
       THEN /\ pc' = [pc EXCEPT ![t] = "throw"]
            /\ address_' = address_
       ELSE /\ \E port \in Ports \ {0} :
                 address_' = IF address_ = 0 THEN port ELSE address_
            /\ pc' = [pc EXCEPT ![t] = "listen"]
  /\ UNCHANGED <<fixed_vars, running_, socket_, max_threads_, max_pending_,
                 thread_queue_, cli_socket, starts, stops, conn_vars>>

\* set_state: listen(socket_, max_pending_)
EchoSetStateListen(t) ==
  /\ obj = "echoserver"
  /\ pc[t] = "listen"
  /\ socket_' = IF socket_ = "bad" THEN "bad" ELSE "listening"
  /\ pc' = [pc EXCEPT ![t] = IF socket_ = "bad" THEN "throw" ELSE "mark_running"]
  /\ UNCHANGED <<fixed_vars, running_, address_, max_threads_, max_pending_,
                 thread_queue_, cli_socket, starts, stops, conn_vars>>

\* set_state: running_ = true
EchoSetStateRunning(t) ==
  /\ obj = "echoserver"
  /\ pc[t] = "mark_running"
  /\ running_' = TRUE
  /\ pc' = [pc EXCEPT ![t] = "loop"]
  /\ UNCHANGED <<fixed_vars, socket_, address_, max_threads_, max_pending_,
                 thread_queue_, cli_socket, starts, stops, conn_vars>>

\* while (running_)
EchoLoop(t) ==
  /\ obj = "echoserver"
  /\ pc[t] = "loop"
  /\ pc' = [pc EXCEPT ![t] = IF running_ THEN "wait_pollin" ELSE "join_threads"]
  /\ UNCHANGED <<fixed_vars, srv_vars, cli_socket, starts, stops, conn_vars>>

\* if (!wait_pollin(socket_)) continue: 1 ms poll of the listening socket
EchoWaitPollin(t) ==
  /\ obj = "echoserver"
  /\ pc[t] = "wait_pollin"
  /\ pc' = [pc EXCEPT ![t] =
              IF socket_ = "listening" /\ pending # <<>> THEN "accept" ELSE "loop"]
  /\ UNCHANGED <<fixed_vars, srv_vars, cli_socket, starts, stops, conn_vars>>

\* auto cli_socket = accept(socket_): blocks until a connection is pending;
\* throws when the handle is not a listening socket
EchoAccept(t) ==
  /\ obj = "echoserver"
  /\ pc[t] = "accept"
  /\ IF socket_ = "listening"
       THEN /\ pending # <<>>
            /\ cli_socket' = [cli_socket EXCEPT ![t] = Head(pending)]
            /\ pending' = Tail(pending)
            /\ pc' = [pc EXCEPT ![t] = "capacity"]
       ELSE /\ pc' = [pc EXCEPT ![t] = "throw"]
            /\ UNCHANGED <<cli_socket, pending>>
  /\ UNCHANGED <<fixed_vars, srv_vars, starts, stops, client, thread, wire>>

\* if (thread_queue_.size() == max_threads_)
EchoCapacity(t) ==
  /\ obj = "echoserver"
  /\ pc[t] = "capacity"
  /\ pc' = [pc EXCEPT ![t] =
              IF AtCapacity(thread_queue_, max_threads_) THEN "join" ELSE "emplace"]
  /\ UNCHANGED <<fixed_vars, srv_vars, cli_socket, starts, stops, conn_vars>>

\* thread_queue_.front().join(); thread_queue_.pop_front(): join blocks until
\* the thread has ended; front() of an empty deque is undefined behaviour:
\* the process crashes ("undefined") or join() of what is no thread throws
\* std::system_error out of start()
EchoJoinFront(t) ==
  /\ obj = "echoserver"
  /\ pc[t] = "join"
  /\ IF thread_queue_ = <<>>
       THEN /\ \E outcome \in {"undefined", "throw"} :
                 pc' = [pc EXCEPT ![t] = outcome]
            /\ UNCHANGED <<thread, thread_queue_>>
       ELSE /\ thread[Front(thread_queue_)].pc = "finished"
            /\ thread' = [thread EXCEPT ![Front(thread_queue_)].pc = "joined"]
            /\ thread_queue_' = PopFront(thread_queue_)
            /\ pc' = [pc EXCEPT ![t] = "emplace"]
  /\ UNCHANGED <<fixed_vars, running_, socket_, address_, max_threads_, max_pending_,
                 cli_socket, starts, stops, pending, client, wire>>

\* cli_socket.release(); thread_queue_.emplace_back(std::thread{...})
EchoEmplace(t) ==
  /\ obj = "echoserver"
  /\ pc[t] = "emplace"
  /\ thread' = [thread EXCEPT ![cli_socket[t]].pc = "read"]
  /\ thread_queue_' = EmplaceBack(thread_queue_, cli_socket[t])
  /\ cli_socket' = [cli_socket EXCEPT ![t] = 0]
  /\ pc' = [pc EXCEPT ![t] = "loop"]
  /\ UNCHANGED <<fixed_vars, running_, socket_, address_, max_threads_, max_pending_,
                 starts, stops, pending, client, wire>>

\* a join_threads that joins nothing
NextToJoinNone(queue) == 0

\* the first thread of the queue that join_threads has not passed yet (joined,
\* or tried to join and failed), 0 if none
NextToJoin(queue) ==
  IF \E k \in 1..Len(queue) : thread[queue[k]].pc \notin {"joined", "join_failed"}
    THEN queue[CHOOSE k \in 1..Len(queue) :
                 /\ thread[queue[k]].pc \notin {"joined", "join_failed"}
                 /\ \A j \in 1..(k - 1) :
                      thread[queue[j]].pc \in {"joined", "join_failed"}]
    ELSE 0

\* reset_state: join_threads() joins the threads of the queue in order
EchoJoinThreads(t) ==
  /\ obj = "echoserver"
  /\ pc[t] = "join_threads"
  /\ LET c == NextToJoin(thread_queue_)
     IN IF c = 0
          THEN /\ pc' = [pc EXCEPT ![t] = "reset_state"]
               /\ thread' = thread
          ELSE /\ thread[c].pc = "finished"
               /\ thread' = [thread EXCEPT ![c].pc = "joined"]
               /\ pc' = pc
  /\ UNCHANGED <<fixed_vars, srv_vars, cli_socket, starts, stops, pending, client, wire>>

\* reset_state: socket_ = {} closes the listening socket; address_ = {}
EchoResetSocket(t) ==
  /\ obj = "echoserver"
  /\ pc[t] = "reset_state"
  /\ socket_' = "bad"
  /\ address_' = 0
  /\ pending' = <<>>
  /\ wire' = DropPending(wire)
  /\ pc' = [pc EXCEPT ![t] = "reset_running"]
  /\ UNCHANGED <<fixed_vars, running_, max_threads_, max_pending_, thread_queue_,
                 cli_socket, starts, stops, client, thread>>

\* reset_state: running_ = false; the thread queue is emptied; return EXIT_SUCCESS
EchoResetRunning(t) ==
  /\ obj = "echoserver"
  /\ pc[t] = "reset_running"
  /\ running_' = FALSE
  /\ thread_queue_' = <<>>
  /\ pc' = [pc EXCEPT ![t] = "EXIT_SUCCESS"]
  /\ UNCHANGED <<fixed_vars, socket_, address_, max_threads_, max_pending_,
                 cli_socket, starts, stops, conn_vars>>

\* a stop() that flips the flag
StopToggle ==
  /\ obj \in {"echoserver", "ipv4_server"}
  /\ stops > 0
  /\ stops' = stops - 1
  /\ running_' = ~running_
  /\ UNCHANGED <<fixed_vars, socket_, address_, max_threads_, max_pending_,
                 thread_queue_, loop_vars, conn_vars>>

\* stop(): running_ = false, from any thread at any time
Stop ==
  /\ obj \in {"echoserver", "ipv4_server"}
  /\ stops > 0
  /\ stops' = stops - 1
  /\ running_' = FALSE
  /\ UNCHANGED <<fixed_vars, socket_, address_, max_threads_, max_pending_,
                 thread_queue_, loop_vars, conn_vars>>

(***************************************************************************)
(* event_loop of ackserver++: the same queue, a blocking accept, no flag.  *)
(***************************************************************************)
\* auto cli_socket = pdnnet::accept(sockfd)
EventLoopAccept(t) ==
  /\ obj = "event_loop"
  /\ pc[t] = "accept"
  /\ pending # <<>>
  /\ cli_socket' = [cli_socket EXCEPT ![t] = Head(pending)]
  /\ pending' = Tail(pending)
  /\ pc' = [pc EXCEPT ![t] = "capacity"]
  /\ UNCHANGED <<fixed_vars, srv_vars, starts, stops, client, thread, wire>>

\* if (thread_queue.size() == max_threads)
EventLoopCapacity(t) ==
  /\ obj = "event_loop"
  /\ pc[t] = "capacity"
  /\ pc' = [pc EXCEPT ![t] =
              IF AtCapacity(thread_queue_, max_threads_) THEN "join" ELSE "emplace"]
  /\ UNCHANGED <<fixed_vars, srv_vars, cli_socket, starts, stops, conn_vars>>

\* thread_queue.front().join(); thread_queue.pop_front()
EventLoopJoinFront(t) ==
  /\ obj = "event_loop"
  /\ pc[t] = "join"
  /\ IF thread_queue_ = <<>>
       THEN /\ \E outcome \in {"undefined", "throw"} :
                 pc' = [pc EXCEPT ![t] = outcome]
            /\ UNCHANGED <<thread, thread_queue_>>
       ELSE /\ thread[Front(thread_queue_)].pc = "finished"
            /\ thread' = [thread EXCEPT ![Front(thread_queue_)].pc = "joined"]
            /\ thread_queue_' = PopFront(thread_queue_)
            /\ pc' = [pc EXCEPT ![t] = "emplace"]
  /\ UNCHANGED <<fixed_vars, running_, socket_, address_, max_threads_, max_pending_,
                 cli_socket, starts, stops, pending, client, wire>>

\* thread_queue.emplace_back(std::thread{handle_client, cli_socket.release()})
EventLoopEmplace(t) ==
  /\ obj = "event_loop"
  /\ pc[t] = "emplace"
  /\ thread' = [thread EXCEPT ![cli_socket[t]].pc = "read"]
  /\ thread_queue_' = EmplaceBack(thread_queue_, cli_socket[t])
  /\ cli_socket' = [cli_socket EXCEPT ![t] = 0]
  /\ pc' = [pc EXCEPT ![t] = "accept"]
  /\ UNCHANGED <<fixed_vars, running_, socket_, address_, max_threads_, max_pending_,
                 starts, stops, pending, client, wire>>

(***************************************************************************)
(* ipv4_server::start(params, false), one action per step of caller t.     *)
(***************************************************************************)
\* start(): "if already started, throw"
Ipv4Start(t) ==
  /\ obj = "ipv4_server"
  /\ pc[t] \in Outside
  /\ starts[t] > 0
  /\ starts' = [starts EXCEPT ![t] = @ - 1]
  /\ pc' = [pc EXCEPT ![t] = IF running_ THEN "throw" ELSE "set_state"]
  /\ UNCHANGED <<fixed_vars, srv_vars, cli_socket, stops, conn_vars>>

\* set_state: new socket, address with the requested port, max_pending_, bind
Ipv4SetStateBind(t) ==
  /\ obj = "ipv4_server"
  /\ pc[t] = "set_state"
  /\ socket_' = "bound"
  /\ address_' = params.port
  /\ max_pending_' = params.max_pending
  /\ pending' = <<>>
  /\ wire' = DropPending(wire)
  /\ pc' = [pc EXCEPT ![t] = "getsockname"]
  /\ UNCHANGED <<fixed_vars, running_, max_threads_, thread_queue_, cli_socket,
                 starts, stops, client, thread>>

\* set_state: getsockname resolves port 0 to the port the OS assigned
Ipv4SetStateGetsockname(t) ==
  /\ obj = "ipv4_server"
  /\ pc[t] = "getsockname"
  /\ IF socket_ = "bad"
       THEN /\ pc' = [pc EXCEPT ![t] = "throw"]
            /\ address_' = address_
       ELSE /\ \E port \in Ports \ {0} :
                 address_' = IF address_ = 0 THEN port ELSE address_
            /\ pc' = [pc EXCEPT ![t] = "listen"]
  /\ UNCHANGED <<fixed_vars, running_, socket_, max_threads_, max_pending_,
                 thread_queue_, cli_socket, starts, stops, conn_vars>>

\* set_state: listen(socket_, max_pending_)
Ipv4SetStateListen(t) ==
  /\ obj = "ipv4_server"
  /\ pc[t] = "listen"
  /\ socket_' = IF socket_ = "bad" THEN "bad" ELSE "listening"
  /\ pc' = [pc EXCEPT ![t] = IF socket_ = "bad" THEN "throw" ELSE "mark_running"]
  /\ UNCHANGED <<fixed_vars, running_, address_, max_threads_, max_pending_,
                 thread_queue_, cli_socket, starts, stops, conn_vars>>

\* set_state: running_ = true
Ipv4SetStateRunning(t) ==
  /\ obj = "ipv4_server"
  /\ pc[t] = "mark_running"
  /\ running_' = TRUE
  /\ pc' = [pc EXCEPT ![t] = "loop"]
  /\ UNCHANGED <<fixed_vars, socket_, address_, max_threads_, max_pending_,
                 thread_queue_, cli_socket, starts, stops, conn_vars>>

\* while (running_)
Ipv4Loop(t) ==
  /\ obj = "ipv4_server"
  /\ pc[t] = "loop"
  /\ pc' = [pc EXCEPT ![t] = IF running_ THEN "wait_pollin" ELSE "reset_success"]
  /\ UNCHANGED <<fixed_vars, srv_vars, cli_socket, starts, stops, conn_vars>>

\* if (!wait_pollin(socket_)) continue
Ipv4WaitPollin(t) ==
  /\ obj = "ipv4_server"
  /\ pc[t] = "wait_pollin"
  /\ pc' = [pc EXCEPT ![t] =
              IF socket_ = "listening" /\ pending # <<>> THEN "accept" ELSE "loop"]
  /\ UNCHANGED <<fixed_vars, srv_vars, cli_socket, starts, stops, conn_vars>>

\* auto cli_socket = accept(socket_), after which serve(cli_socket) is entered
Ipv4Accept(t) ==
  /\ obj = "ipv4_server"
  /\ pc[t] = "accept"
  /\ IF socket_ = "listening"
       THEN /\ pending # <<>>
            /\ cli_socket' = [cli_socket EXCEPT ![t] = Head(pending)]
            /\ pending' = Tail(pending)
            /\ pc' = [pc EXCEPT ![t] = "serve"]
       ELSE /\ pc' = [pc EXCEPT ![t] = "throw"]
            /\ UNCHANGED <<cli_socket, pending>>
  /\ UNCHANGED <<fixed_vars, srv_vars, starts, stops, client, thread, wire>>

\* serve(cli_socket) returns served; the client socket is closed when
\* cli_socket goes out of scope; on false the state is reset
Ipv4Serve(t) ==
  /\ obj = "ipv4_server"
  /\ pc[t] = "serve"
  /\ \E served \in BOOLEAN :
       pc' = [pc EXCEPT ![t] = IF served THEN "loop" ELSE "reset_failure"]
  /\ wire' = [wire EXCEPT ![cli_socket[t]].sclosed = TRUE]
  /\ cli_socket' = [cli_socket EXCEPT ![t] = 0]
  /\ UNCHANGED <<fixed_vars, srv_vars, starts, stops, pending, client, thread>>

\* reset_state: socket_ = {}; running_ = false; then start returns
Ipv4ResetState(t) ==
  /\ obj = "ipv4_server"
  /\ pc[t] \in {"reset_success", "reset_failure"}
  /\ socket_' = "bad"
  /\ running_' = FALSE
  /\ pending' = <<>>
  /\ wire' = DropPending(wire)
  /\ pc' = [pc EXCEPT ![t] =
              IF pc[t] = "reset_success" THEN "EXIT_SUCCESS" ELSE "EXIT_FAILURE"]
  /\ UNCHANGED <<fixed_vars, address_, max_threads_, max_pending_, thread_queue_,
                 cli_socket, starts, stops, client, thread>>

ClientStep ==
  \E c \in Clients :
    \/ ClientConnect(c)
    \/ ClientWrite(c)
    \/ ClientWait(c)
    \/ ClientRead(c)

ThreadStep ==
  \E c \in Clients :
    \/ ThreadRead(c)
    \/ ThreadWrite(c)

EchoStep ==
  \E t \in Callers :
    \/ EchoStart(t)
    \/ EchoSetStateBind(t)
    \/ EchoSetStateGetsockname(t)
    \/ EchoSetStateListen(t)
    \/ EchoSetStateRunning(t)
    \/ EchoLoop(t)
    \/ EchoWaitPollin(t)
    \/ EchoAccept(t)
    \/ EchoCapacity(t)
    \/ EchoJoinFront(t)
    \/ EchoEmplace(t)
    \/ EchoJoinThreads(t)
    \/ EchoResetSocket(t)
    \/ EchoResetRunning(t)

\* the echo server under MaxClients connections; fewer connections, a stop()
\* and a second start() by the same caller; one connection with every message length, a second caller of
\* start() and repeated stop()
InitEchoServer ==
  /\ InitEcho
  /\ \/ Scenario(MaxClients, {0}, 0..MaxThreads, <<1, 0>>, 0)
     \/ Scenario(MaxClients - 1, {0}, 1..(MaxThreads - 1), <<2, 0>>, 1)
     \/ Scenario(1, 0..MaxLen, {1}, <<1, 1>>, MaxStops)

\* ackserver++ under MaxClients connections
InitAckServer ==
  /\ Scenario(MaxClients, {0}, {MaxThreads}, <<0, 0>>, 0)
  /\ InitEventLoop

\* an ipv4_server, one connection at a time, a second caller of start()
InitIpv4Server ==
  /\ InitIpv4
  /\ Scenario(MaxClients - 1, {0}, {0}, <<1, 1>>, MaxStops)

EventLoopStep ==
  \E t \in Callers :
    \/ EventLoopAccept(t)
    \/ EventLoopCapacity(t)
    \/ EventLoopJoinFront(t)
    \/ EventLoopEmplace(t)

Ipv4Step ==
  \E t \in Callers :
    \/ Ipv4Start(t)
    \/ Ipv4SetStateBind(t)
    \/ Ipv4SetStateGetsockname(t)
    \/ Ipv4SetStateListen(t)
    \/ Ipv4SetStateRunning(t)
    \/ Ipv4Loop(t)
    \/ Ipv4WaitPollin(t)
    \/ Ipv4Accept(t)
    \/ Ipv4Serve(t)
    \/ Ipv4ResetState(t)

Init == InitEchoServer \/ InitAckServer \/ InitIpv4Server

Next == ClientStep \/ ThreadStep \/ EchoStep \/ EventLoopStep \/ Ipv4Step \/ Stop

Spec == Init /\ [][Next]_vars

(***************************************************************************)
(* The serving echo server: the test's run between SetUp and TearDown, in  *)
(* which nobody calls stop().  Every thread that can take a step is        *)
(* scheduled again and again.                                              *)
(***************************************************************************)
\* a started echoserver with fewer thread slots than connections
InitServing ==
  /\ InitEcho
  /\ Scenario(MaxClients - 1, 0..(MaxLen - 1), 0..(MaxThreads - 1), <<1, 0>>, 0)

\* start() up to and including the accept loop
ServingStep ==
  \E t \in Callers :
    \/ EchoStart(t)
    \/ EchoSetStateBind(t)
    \/ EchoSetStateGetsockname(t)
    \/ EchoSetStateListen(t)
    \/ EchoSetStateRunning(t)
    \/ EchoLoop(t)
    \/ EchoWaitPollin(t)
    \/ EchoAccept(t)
    \/ EchoCapacity(t)
    \/ EchoJoinFront(t)
    \/ EchoEmplace(t)

ServingNext == ClientStep \/ ThreadStep \/ ServingStep

\* the OS schedules the thread that called start(), every connection thread
\* and every client thread of std::async
Scheduling ==
  /\ WF_vars(ServingStep)
  /\ \A c \in Clients : WF_vars(ThreadRead(c) \/ ThreadWrite(c))
  /\ \A c \in Clients :
       WF_vars(ClientConnect(c) \/ ClientWrite(c) \/ ClientWait(c) \/ ClientRead(c))

FairSpec == InitServing /\ [][ServingNext]_vars /\ Scheduling
(***************************************************************************)
(* thread_executor (executor.hh).  mut_ guards all state: every block      *)
(* under a std::lock_guard or std::unique_lock of mut_ is one step, and    *)
(* cond_.wait splits the block of the worker in two.  A task is named by   *)
(* its number in the order in which post() appended the tasks.             *)
(***************************************************************************)
Workers == DOMAIN threads_

\* the workers blocked in cond_.wait
Waiting == {w \in Workers : threads_[w].pc = "waiting"}

\* the new task put at the front of the queue
TaskPushFront(queue, task) == <<task>> \o queue

\* tasks_.push_back(std::forward<F>(func))
TaskPushBack(queue, task) == Append(queue, task)

\* the task at the back of the queue
TaskBack(queue) == queue[Len(queue)]

\* tasks_.front()
TaskFront(queue) == Head(queue)

\* tasks_.pop_front()
TaskPopFront(queue) == Tail(queue)

\* what the executor never touches: the state of the servers and clients
server_vars ==
  <<cfg_vars, socket_, address_, max_threads_, max_pending_, thread_queue_,
    cli_socket, starts, conn_vars, tls_vars>>

\* thread_executor(n_threads): threads_{n_threads}, then start() marks the
\* executor running and starts one worker loop per element of threads_; two
\* threads use the executor afterwards, the first of which may call start()
\* again and destroys the executor in the end
InitExecutor ==
  /\ obj = "thread_executor"
  /\ params = [port |-> 0, max_pending |-> 0, max_concurrency |-> 0]
  /\ msglen = 0
  /\ running_ = TRUE
  /\ tasks_ = <<>>
  /\ \E n_threads \in 0..MaxWorkers :
       threads_ = [w \in 1..n_threads |-> [pc |-> "lock", task |-> 0]]
  /\ posted = 0
  /\ pc = [t \in Callers |-> "idle"]
  /\ stops = 1
  /\ socket_ = "bad"
  /\ address_ = 0
  /\ max_threads_ = 0
  /\ max_pending_ = 0
  /\ thread_queue_ = <<>>
  /\ cli_socket = [t \in Callers |-> 0]
  /\ starts = [t \in Callers |-> IF t = 1 THEN 1 ELSE 0]
  /\ InitConn(0)
  /\ NoTls

\* the executor object lives: its destructor has not begun and the process
\* was not ended by std::terminate
Usable == \A u \in Callers : pc[u] \in {"idle", "notify_one", "notify_all"}

\* post(func): the task is appended under the lock
ExecutorPost(t) ==
  /\ obj = "thread_executor"
  /\ pc[t] = "idle"
  /\ Usable
  /\ posted < MaxTasks
  /\ tasks_' = TaskPushBack(tasks_, posted + 1)
  /\ posted' = posted + 1
  /\ pc' = [pc EXCEPT ![t] = "notify_one"]
  /\ UNCHANGED <<server_vars, running_, stops, threads_>>

\* a post(func) that notifies nobody
ExecutorPostNoNotify(t) ==
  /\ obj = "thread_executor"
  /\ pc[t] = "notify_one"
  /\ threads_' = threads_
  /\ pc' = [pc EXCEPT ![t] = "idle"]
  /\ UNCHANGED <<server_vars, running_, stops, tasks_, posted>>

\* post(func): cond_.notify_one() wakes one of the waiting workers, if any
ExecutorPostNotify(t) ==
  /\ obj = "thread_executor"
  /\ pc[t] = "notify_one"
  /\ IF Waiting = {}
       THEN threads_' = threads_
       ELSE \E w \in Waiting : threads_' = [threads_ EXCEPT ![w].pc = "lock"]
  /\ pc' = [pc EXCEPT ![t] = "idle"]
  /\ UNCHANGED <<server_vars, running_, stops, tasks_, posted>>

\* stop(): running_ = false under the lock
ExecutorStop(t) ==
  /\ obj = "thread_executor"
  /\ pc[t] = "idle"
  /\ Usable
  /\ stops > 0
  /\ stops' = stops - 1
  /\ running_' = FALSE
  /\ pc' = [pc EXCEPT ![t] = "notify_all"]
  /\ UNCHANGED <<server_vars, exec_vars>>

\* stop(): cond_.notify_all() wakes every waiting worker
ExecutorStopNotify(t) ==
  /\ obj = "thread_executor"
  /\ pc[t] = "notify_all"
  /\ threads_' = [w \in Workers |->
                    IF w \in Waiting THEN [threads_[w] EXCEPT !.pc = "lock"]
                                     ELSE threads_[w]]
  /\ pc' = [pc EXCEPT ![t] = "idle"]
  /\ UNCHANGED <<server_vars, running_, stops, tasks_, posted>>

\* threads_[w] is joinable: it holds a thread, running or ended, that was
\* neither joined nor detached
Joinable(w) == threads_[w].pc \notin {"none", "joined"}

\* a start() that starts the worker loops whatever running_ is
ExecutorStartAlways(t) ==
  /\ obj = "thread_executor"
  /\ pc[t] = "idle"
  /\ Usable
  /\ starts[t] > 0
  /\ starts' = [starts EXCEPT ![t] = @ - 1]
  /\ running_' = TRUE
  /\ IF \E w \in Workers : Joinable(w)
       THEN /\ threads_' = [w \in Workers |-> [threads_[w] EXCEPT !.pc = "terminated"]]
            /\ pc' = [u \in Callers |-> "terminated"]
       ELSE /\ threads_' = [w \in Workers |-> [pc |-> "lock", task |-> 0]]
            /\ pc' = pc
  /\ UNCHANGED <<cfg_vars, socket_, address_, max_threads_, max_pending_,
                 thread_queue_, cli_socket, conn_vars, stops, tasks_, posted,
                 tls_vars>>

\* start(), all of it under the lock: nothing is done when running;
\* otherwise running_ = true and every element of threads_ is move-assigned a
\* new worker thread; std::thread::operator= calls std::terminate when the
\* element is joinable, which ends the process
ExecutorStart(t) ==
  /\ obj = "thread_executor"
  /\ pc[t] = "idle"
  /\ Usable
  /\ starts[t] > 0
  /\ starts' = [starts EXCEPT ![t] = @ - 1]
  /\ IF running_
       THEN UNCHANGED <<running_, threads_, pc>>
       ELSE /\ running_' = TRUE
            /\ IF \E w \in Workers : Joinable(w)
                 THEN /\ threads_' =
                           [w \in Workers |-> [threads_[w] EXCEPT !.pc = "terminated"]]
                      /\ pc' = [u \in Callers |-> "terminated"]
                 ELSE /\ threads_' = [w \in Workers |-> [pc |-> "lock", task |-> 0]]
                      /\ pc' = pc
  /\ UNCHANGED <<cfg_vars, socket_, address_, max_threads_, max_pending_,
                 thread_queue_, cli_socket, conn_vars, stops, tasks_, posted,
                 tls_vars>>

\* ~thread_executor(): stop() marks the executor not running; the owner
\* destroys the executor when no other thread is inside a member function
ExecutorDtorStop(t) ==
  /\ obj = "thread_executor"
  /\ t = 1
  /\ \A u \in Callers : pc[u] = "idle"
  /\ running_' = FALSE
  /\ pc' = [pc EXCEPT ![t] = "dtor_notify_all"]
  /\ UNCHANGED <<server_vars, stops, exec_vars>>

\* a notify_all that wakes one waiting worker only
ExecutorDtorNotifyOne(t) ==
  /\ obj = "thread_executor"
  /\ pc[t] = "dtor_notify_all"
  /\ IF Waiting = {}
       THEN threads_' = threads_
       ELSE \E w \in Waiting : threads_' = [threads_ EXCEPT ![w].pc = "lock"]
  /\ pc' = [pc EXCEPT ![t] = "dtor_join"]
  /\ UNCHANGED <<server_vars, running_, stops, tasks_, posted>>

\* ~thread_executor(): stop() ends with cond_.notify_all()
ExecutorDtorNotify(t) ==
  /\ obj = "thread_executor"
  /\ pc[t] = "dtor_notify_all"
  /\ threads_' = [w \in Workers |->
                    IF w \in Waiting THEN [threads_[w] EXCEPT !.pc = "lock"]
                                     ELSE threads_[w]]
  /\ pc' = [pc EXCEPT ![t] = "dtor_join"]
  /\ UNCHANGED <<server_vars, running_, stops, tasks_, posted>>

\* the first worker that join() has not joined yet, 0 if none
NextWorker ==
  IF \E w \in Workers : Joinable(w)
    THEN CHOOSE w \in Workers : Joinable(w) /\ \A v \in 1..(w - 1) : ~Joinable(v)
    ELSE 0

\* ~thread_executor(): join() joins the workers in the order of threads_,
\* each join blocks until the worker has left its loop
ExecutorDtorJoin(t) ==
  /\ obj = "thread_executor"
  /\ pc[t] = "dtor_join"
  /\ IF NextWorker = 0
       THEN /\ pc' = [pc EXCEPT ![t] = "destroyed"]
            /\ threads_' = threads_
       ELSE /\ threads_[NextWorker].pc = "exited"
            /\ threads_' = [threads_ EXCEPT ![NextWorker].pc = "joined"]
            /\ pc' = pc
  /\ UNCHANGED <<server_vars, running_, stops, tasks_, posted>>

\* a worker that moves the front task out without pop_front()
WorkerWaitNoPop(w) ==
  /\ obj = "thread_executor"
  /\ w \in Workers
  /\ threads_[w].pc = "lock"
  /\ IF tasks_ = <<>> /\ running_
       THEN /\ threads_' = [threads_ EXCEPT ![w].pc = "waiting"]
            /\ tasks_' = tasks_
       ELSE IF ~running_
         THEN /\ threads_' = [threads_ EXCEPT ![w].pc = "exited"]
              /\ tasks_' = tasks_
         ELSE /\ threads_' = [threads_ EXCEPT ![w].pc = "taken",
                                             ![w].task = TaskFront(tasks_)]
              /\ tasks_' = tasks_
  /\ UNCHANGED <<server_vars, running_, pc, stops, posted>>

\* a worker that leaves its loop only when the queue is empty
WorkerWaitDrain(w) ==
  /\ obj = "thread_executor"
  /\ w \in Workers
  /\ threads_[w].pc = "lock"
  /\ IF tasks_ = <<>> /\ running_
       THEN /\ threads_' = [threads_ EXCEPT ![w].pc = "waiting"]
            /\ tasks_' = tasks_
       ELSE IF tasks_ = <<>>
         THEN /\ threads_' = [threads_ EXCEPT ![w].pc = "exited"]
              /\ tasks_' = tasks_
         ELSE /\ threads_' = [threads_ EXCEPT ![w].pc = "taken",
                                             ![w].task = TaskFront(tasks_)]
              /\ tasks_' = TaskPopFront(tasks_)
  /\ UNCHANGED <<server_vars, running_, pc, stops, posted>>

\* the worker loop under the lock: cond_.wait(lk, pred) blocks while there is
\* no task and the executor runs; a stopped executor ends the loop; otherwise
\* the task at the front is moved out of the queue
WorkerWait(w) ==
  /\ obj = "thread_executor"
  /\ w \in Workers
  /\ threads_[w].pc = "lock"
  /\ IF tasks_ = <<>> /\ running_
       THEN /\ threads_' = [threads_ EXCEPT ![w].pc = "waiting"]
            /\ tasks_' = tasks_
       ELSE IF ~running_
         THEN /\ threads_' = [threads_ EXCEPT ![w].pc = "exited"]
              /\ tasks_' = tasks_
         ELSE /\ threads_' = [threads_ EXCEPT ![w].pc = "taken",
                                             ![w].task = TaskFront(tasks_)]
              /\ tasks_' = TaskPopFront(tasks_)
  /\ UNCHANGED <<server_vars, running_, pc, stops, posted>>

\* a condition variable may wake a waiting thread without a notification
WorkerSpuriousWake(w) ==
  /\ obj = "thread_executor"
  /\ w \in Workers
  /\ threads_[w].pc = "waiting"
  /\ threads_' = [threads_ EXCEPT ![w].pc = "lock"]
  /\ UNCHANGED <<server_vars, running_, pc, stops, tasks_, posted>>

\* after unlocking: task() begins
WorkerBegin(w) ==
  /\ obj = "thread_executor"
  /\ w \in Workers
  /\ threads_[w].pc = "taken"
  /\ threads_' = [threads_ EXCEPT ![w].pc = "task"]
  /\ UNCHANGED <<server_vars, running_, pc, stops, tasks_, posted>>

\* task() returns and the loop goes round
WorkerEnd(w) ==
  /\ obj = "thread_executor"
  /\ w \in Workers
  /\ threads_[w].pc = "task"
  /\ threads_' = [threads_ EXCEPT ![w].pc = "lock", ![w].task = 0]
  /\ UNCHANGED <<server_vars, running_, pc, stops, tasks_, posted>>

ExecutorStep ==
  \E t \in Callers :
    \/ ExecutorPost(t)
    \/ ExecutorPostNotify(t)
    \/ ExecutorStop(t)
    \/ ExecutorStopNotify(t)
    \/ ExecutorStart(t)
    \/ ExecutorDtorStop(t)
    \/ ExecutorDtorNotify(t)
    \/ ExecutorDtorJoin(t)

WorkerStep ==
  \E w \in 1..MaxWorkers :
    \/ WorkerWait(w)
    \/ WorkerSpuriousWake(w)
    \/ WorkerBegin(w)
    \/ WorkerEnd(w)

ExecutorNext == ExecutorStep \/ WorkerStep

ExecutorSpec == InitExecutor /\ [][ExecutorNext]_vars

\* the executor that is stopped and destroyed and never started again
ExecutorLifeStep ==
  \E t \in Callers :
    \/ ExecutorPost(t)
    \/ ExecutorPostNotify(t)
    \/ ExecutorStop(t)
    \/ ExecutorStopNotify(t)
    \/ ExecutorDtorStop(t)
    \/ ExecutorDtorNotify(t)
    \/ ExecutorDtorJoin(t)

ExecutorLifeNext == ExecutorLifeStep \/ WorkerStep

\* a thread inside post(), stop() or the destructor goes on to the end of
\* the call; every worker that can take the lock, begin its task or end it
\* does so (every task terminates); spurious wakeups need not happen
ExecutorScheduling ==
  /\ \A t \in Callers :
       /\ WF_vars(ExecutorPostNotify(t))
       /\ WF_vars(ExecutorStopNotify(t))
       /\ WF_vars(ExecutorDtorNotify(t))
       /\ WF_vars(ExecutorDtorJoin(t))
  /\ \A w \in 1..MaxWorkers :
       /\ WF_vars(WorkerWait(w))
       /\ WF_vars(WorkerBegin(w))
       /\ WF_vars(WorkerEnd(w))

ExecutorFairSpec == InitExecutor /\ [][ExecutorLifeNext]_vars /\ ExecutorScheduling

(***************************************************************************)
(* httpsclient on Windows: main acquires the Schannel credential, runs     *)
(* schannel_perform_handshake and ends; unique_cred_handle and             *)
(* unique_ctxt_handle own the native handles.                              *)
(***************************************************************************)
\* pdnnet::tls_record_size_limit, the size of ctx_buffer
tls_record_size_limit == MaxToken

\* values InitializeSecurityContext returns
Statuses ==
  {"SEC_E_OK", "SEC_I_CONTINUE_NEEDED", "SEC_E_INCOMPLETE_MESSAGE", "SEC_E_INVALID_TOKEN"}

\* native handles: the credential is 1, the security context is 2
CredHandle == 1
CtxtHandle == 2

\* a program that runs no server, client thread or executor
NoServer ==
  /\ running_ = FALSE
  /\ socket_ = "bad"
  /\ address_ = 0
  /\ max_threads_ = 0
  /\ max_pending_ = 0
  /\ thread_queue_ = <<>>
  /\ pc = [t \in Callers |-> "idle"]
  /\ cli_socket = [t \in Callers |-> 0]
  /\ starts = [t \in Callers |-> 0]
  /\ stops = 0
  /\ InitConn(0)
  /\ NoExecutor

\* one call made by the TLS client, as the log keeps it; n is the number of
\* bytes a recv or a read delivered or a write took
Call(name, result, n) == [call |-> name, result |-> result, n |-> n]

\* calls of one kind made so far
Calls(name) == {i \in DOMAIN tls_log : tls_log[i].call = name}

\* bytes received from the peer so far
Received ==
  LET R[i \in 0..Len(tls_log)] ==
        IF i = 0 THEN 0
        ELSE R[i - 1] + (IF tls_log[i].call \in {"recv", "SSL_read"} /\ tls_log[i].n > 0
                           THEN tls_log[i].n ELSE 0)
  IN R[Len(tls_log)]

\* std::memcpy(buf, buf + off, n): the n bytes at off copied to the front.
\* The regions overlap when off < n, which std::memcpy leaves undefined: a
\* copy from the lowest address up gives what memmove gives, a copy from
\* the highest address down reads bytes it has already overwritten
memcpy(buf, off, n) ==
  LET up == [i \in DOMAIN buf |-> IF i <= n THEN buf[off + i] ELSE buf[i]]
      down[i \in 1..n] == IF off = 0 \/ off + i > n THEN buf[off + i] ELSE down[off + i]
  IN IF off < n
       THEN {up, [i \in DOMAIN buf |-> IF i <= n THEN down[i] ELSE buf[i]]}
       ELSE {up}

\* unique_cred_handle::destroy_handle / unique_ctxt_handle::destroy_handle of
\* a wrapper holding h: the release routine is called on a valid handle, and
\* the member keeps its value. valid() is dwLower && dwUpper; a handle is
\* named by one number here, 0 for the zeroed struct, and the handles the
\* library hands out have both halves set
destroy_handle(f, h) == IF h # 0 THEN [f EXCEPT ![h] = @ + 1] ELSE f

\* main up to the handshake: cred and context are default-constructed
InitHandshake ==
  /\ obj = "httpsclient"
  /\ msglen = 0
  /\ NoServer
  /\ params = [port |-> 0, max_pending |-> 0, max_concurrency |-> 0]
  /\ tls_pc = "acquire"
  /\ tls_log = <<>>
  /\ ctx_buffer = [i \in 1..tls_record_size_limit |-> 0]
  /\ ctx_bufsize = 0
  /\ building_context = FALSE
  /\ status = "none"
  /\ input_bufs = [cbBuffer |-> 0, bytes |-> <<>>]
  /\ handle_ = [w \in {"cred", "context"} |-> 0]
  /\ freed = <<>>
  /\ NoSsl

\* two wrappers of one class in one scope, a owning handle 1 and b owning
\* handle 2 or none, before any move assignment
InitWrappers ==
  /\ obj = "unique_cred_handle"
  /\ msglen = 0
  /\ NoServer
  /\ params = [port |-> 0, max_pending |-> 0, max_concurrency |-> 0]
  /\ tls_pc = "wrappers"
  /\ tls_log = <<>>
  /\ ctx_buffer = <<>>
  /\ ctx_bufsize = 0
  /\ building_context = FALSE
  /\ status = "none"
  /\ input_bufs = [cbBuffer |-> 0, bytes |-> <<>>]
  /\ \E held \in {{1}, {1, 2}} :
       /\ handle_ = [a |-> 1, b |-> IF 2 \in held THEN 2 ELSE 0]
       /\ freed = [h \in held |-> 0]
  /\ NoSsl

\* acquire_schannel_creds(cred, sc_cred).exit_on_error(): on success the
\* temporary unique_cred_handle{raw_cred} is move-assigned to cred, whose old
\* handle is destroyed first; on failure the program exits
MainAcquire ==
  /\ tls_pc = "acquire"
  /\ \E ok \in BOOLEAN :
       /\ tls_log' = Append(tls_log,
            Call("AcquireCredentialsHandle", IF ok THEN "SEC_E_OK" ELSE "error", 0))
       /\ IF ok
            THEN /\ freed' = destroy_handle(freed, handle_["cred"]) @@ (CredHandle :> 0)
                 /\ handle_' = [handle_ EXCEPT !["cred"] = CredHandle]
                 /\ tls_pc' = "loop"
            ELSE /\ UNCHANGED <<freed, handle_>>
                 /\ tls_pc' = "exited"
  /\ UNCHANGED <<net_vars, ssl_vars, ctx_buffer, ctx_bufsize, building_context, status, input_bufs>>

\* one InitializeSecurityContext call: the first passes no context and no
\* input; a later one passes ctx_buffer[0, ctx_bufsize) and may rewrite
\* input_bufs[1] to SECBUFFER_EXTRA with the count of unprocessed bytes. A
\* call that does not fail writes the context handle
HsInitializeSecurityContext ==
  /\ tls_pc = "loop"
  /\ Cardinality(Calls("InitializeSecurityContext")) < MaxCalls
  /\ \E st \in Statuses, n \in 0..ctx_bufsize :
       /\ building_context \/ n = 0
       /\ status' = st
       /\ input_bufs' = [cbBuffer |-> n,
                         bytes |-> SubSeq(ctx_buffer, ctx_bufsize - n + 1, ctx_bufsize)]
       /\ IF st \in {"SEC_E_OK", "SEC_I_CONTINUE_NEEDED"}
            THEN /\ handle_' = [handle_ EXCEPT !["context"] = CtxtHandle]
                 /\ freed' = freed @@ (CtxtHandle :> 0)
            ELSE UNCHANGED <<handle_, freed>>
       /\ tls_log' = Append(tls_log, Call("InitializeSecurityContext", st, 0))
  /\ tls_pc' = "called"
  /\ UNCHANGED <<net_vars, ssl_vars, ctx_buffer, ctx_bufsize, building_context>>

\* the bookkeeping after the call: extra bytes are copied to the front with
\* std::memcpy and counted, otherwise the count is reset
HsLeftover ==
  /\ tls_pc = "called"
  /\ IF input_bufs.cbBuffer > 0
       THEN /\ ctx_buffer' \in
                 memcpy(ctx_buffer, ctx_bufsize - input_bufs.cbBuffer, input_bufs.cbBuffer)
            /\ ctx_bufsize' = input_bufs.cbBuffer
       ELSE /\ ctx_bufsize' = 0
            /\ UNCHANGED ctx_buffer
  /\ tls_pc' = "switch"
  /\ UNCHANGED <<net_vars, ssl_vars, tls_log, building_context, status, input_bufs, handle_, freed>>

\* HsSwitch without the test of ctx_bufsize == sizeof ctx_buffer
HsSwitchNoFullCheck ==
  /\ tls_pc = "switch"
  /\ CASE status = "SEC_E_OK" ->
            /\ tls_pc' = "ok"
            /\ UNCHANGED tls_log
       [] status = "SEC_I_CONTINUE_NEEDED" ->
            \E sent \in BOOLEAN, released \in BOOLEAN :
              IF ~sent
                THEN /\ tls_log' = Append(tls_log, Call("send", "error", 0))
                     /\ tls_pc' = "error"
                ELSE /\ tls_log' = tls_log \o
                          <<Call("send", "ok", 0),
                            Call("FreeContextBuffer",
                                 IF released THEN "SEC_E_OK" ELSE "error", 0)>>
                     /\ tls_pc' = IF released
                                    THEN "recv" ELSE "error"
       [] OTHER ->
            /\ tls_pc' = "error"
            /\ UNCHANGED tls_log
  /\ UNCHANGED <<net_vars, ssl_vars, ctx_buffer, ctx_bufsize, building_context, status,
                 input_bufs, handle_, freed>>

\* switch (status): SEC_E_OK returns no error; SEC_I_CONTINUE_NEEDED sends
\* the output token, frees it and refuses a full buffer before the recv;
\* every other status returns an error
HsSwitch ==
  /\ tls_pc = "switch"
  /\ CASE status = "SEC_E_OK" ->
            /\ tls_pc' = "ok"
            /\ UNCHANGED tls_log
       [] status = "SEC_I_CONTINUE_NEEDED" ->
            \E sent \in BOOLEAN, released \in BOOLEAN :
              IF ~sent
                THEN /\ tls_log' = Append(tls_log, Call("send", "error", 0))
                     /\ tls_pc' = "error"
                ELSE /\ tls_log' = tls_log \o
                          <<Call("send", "ok", 0),
                            Call("FreeContextBuffer",
                                 IF released THEN "SEC_E_OK" ELSE "error", 0)>>
                     /\ tls_pc' = IF released /\ ctx_bufsize # tls_record_size_limit
                                    THEN "recv" ELSE "error"
       [] OTHER ->
            /\ tls_pc' = "error"
            /\ UNCHANGED tls_log
  /\ UNCHANGED <<net_vars, ssl_vars, ctx_buffer, ctx_bufsize, building_context, status,
                 input_bufs, handle_, freed>>

\* HsRecv, but a recv of 0 bytes is taken for a short read and the loop goes on
HsRecvIgnoreClose ==
  /\ tls_pc = "recv"
  /\ \E n_read \in -1..(tls_record_size_limit - ctx_bufsize) :
       /\ tls_log' = Append(tls_log,
            Call("recv", IF n_read > 0 THEN "ok" ELSE IF n_read = 0 THEN "closed" ELSE "error",
                 IF n_read > 0 THEN n_read ELSE 0))
       /\ IF n_read < 0
            THEN /\ tls_pc' = "error"
                 /\ UNCHANGED <<ctx_buffer, ctx_bufsize, building_context>>
            ELSE /\ ctx_buffer' =
                      [i \in DOMAIN ctx_buffer |->
                         IF i > ctx_bufsize /\ i <= ctx_bufsize + n_read
                           THEN Received + (i - ctx_bufsize)
                           ELSE ctx_buffer[i]]
                 /\ ctx_bufsize' = ctx_bufsize + n_read
                 /\ building_context' = TRUE
                 /\ tls_pc' = "loop"
  /\ UNCHANGED <<net_vars, ssl_vars, status, input_bufs, handle_, freed>>

\* HsRecv, but recv is given sizeof ctx_buffer as the length
HsRecvWholeBuffer ==
  /\ tls_pc = "recv"
  /\ \E n_read \in -1..tls_record_size_limit :
       /\ tls_log' = Append(tls_log,
            Call("recv", IF n_read > 0 THEN "ok" ELSE IF n_read = 0 THEN "closed" ELSE "error",
                 IF n_read > 0 THEN n_read ELSE 0))
       /\ IF n_read <= 0
            THEN /\ tls_pc' = "error"
                 /\ UNCHANGED <<ctx_buffer, ctx_bufsize, building_context>>
            ELSE /\ ctx_buffer' =
                      [i \in DOMAIN ctx_buffer |->
                         IF i > ctx_bufsize /\ i <= ctx_bufsize + n_read
                           THEN Received + (i - ctx_bufsize)
                           ELSE ctx_buffer[i]]
                 /\ ctx_bufsize' = ctx_bufsize + n_read
                 /\ building_context' = TRUE
                 /\ tls_pc' = "loop"
  /\ UNCHANGED <<net_vars, ssl_vars, status, input_bufs, handle_, freed>>

\* ::recv(handle, ctx_buffer + ctx_bufsize, sizeof ctx_buffer - ctx_bufsize, 0):
\* 0 and a negative result return an error, otherwise the bytes are appended,
\* building_context is set and the loop goes round
HsRecv ==
  /\ tls_pc = "recv"
  /\ \E n_read \in -1..(tls_record_size_limit - ctx_bufsize) :
       /\ tls_log' = Append(tls_log,
            Call("recv", IF n_read > 0 THEN "ok" ELSE IF n_read = 0 THEN "closed" ELSE "error",
                 IF n_read > 0 THEN n_read ELSE 0))
       /\ IF n_read <= 0
            THEN /\ tls_pc' = "error"
                 /\ UNCHANGED <<ctx_buffer, ctx_bufsize, building_context>>
            ELSE /\ ctx_buffer' =
                      [i \in DOMAIN ctx_buffer |->
                         IF i > ctx_bufsize /\ i <= ctx_bufsize + n_read
                           THEN Received + (i - ctx_bufsize)
                           ELSE ctx_buffer[i]]
                 /\ ctx_bufsize' = ctx_bufsize + n_read
                 /\ building_context' = TRUE
                 /\ tls_pc' = "loop"
  /\ UNCHANGED <<net_vars, ssl_vars, status, input_bufs, handle_, freed>>

\* optional_error::exit_on_error() on an error, and PDNNET_ERROR_EXIT_IF after
\* QueryContextAttributes: std::exit(EXIT_FAILURE), which runs no destructor
\* of an object of main
MainExitOnError ==
  /\ \/ tls_pc = "error"
     \/ tls_pc = "ok"
  /\ tls_pc' = "exited"
  /\ UNCHANGED <<net_vars, ssl_vars, tls_log, ctx_buffer, ctx_bufsize, building_context, status,
                 input_bufs, handle_, freed>>

\* return EXIT_SUCCESS: context and cred are destroyed in that order
MainReturn ==
  /\ tls_pc = "ok"
  /\ freed' = destroy_handle(destroy_handle(freed, handle_["context"]), handle_["cred"])
  /\ tls_pc' = "returned"
  /\ UNCHANGED <<net_vars, ssl_vars, tls_log, ctx_buffer, ctx_bufsize, building_context, status,
                 input_bufs, handle_>>

\* x = std::move(y) of two wrappers: destroy_handle(), then
\* handle_ = other.release(), which reads the handle of y and zeroes it; x and
\* y may be the same object. A handle released twice ends the run
WrapperMoveAssign(x, y) ==
  /\ tls_pc = "wrappers"
  /\ x \in DOMAIN handle_
  /\ y \in DOMAIN handle_
  /\ \A h \in DOMAIN freed : freed[h] <= 1
  /\ freed' = destroy_handle(freed, handle_[x])
  /\ handle_' = [[handle_ EXCEPT ![y] = 0] EXCEPT ![x] = handle_[y]]
  /\ UNCHANGED <<net_vars, ssl_vars, tls_pc, tls_log, ctx_buffer, ctx_bufsize, building_context,
                 status, input_bufs>>

\* the destructor of wrapper x at the end of its scope
WrapperDestroy(x) ==
  /\ tls_pc = "wrappers"
  /\ x \in DOMAIN handle_
  /\ \A h \in DOMAIN freed : freed[h] <= 1
  /\ freed' = destroy_handle(freed, handle_[x])
  /\ handle_' = [w \in DOMAIN handle_ \ {x} |-> handle_[w]]
  /\ UNCHANGED <<net_vars, ssl_vars, tls_pc, tls_log, ctx_buffer, ctx_bufsize, building_context,
                 status, input_bufs>>

HandshakeNext ==
  \/ MainAcquire
  \/ HsInitializeSecurityContext
  \/ HsLeftover
  \/ HsSwitch
  \/ HsRecv
  \/ MainExitOnError
  \/ MainReturn
  \/ \E x \in {"a", "b"}, y \in {"a", "b"} : WrapperMoveAssign(x, y)
  \/ \E x \in {"a", "b"} : WrapperDestroy(x)

HandshakeSpec == (InitHandshake \/ InitWrappers) /\ [][HandshakeNext]_vars

(***************************************************************************)
(* httpsclient with OpenSSL: unique_tls_layer::handshake, tls_writer and   *)
(* tls_reader, each called once on a connected layer.                      *)
(***************************************************************************)
\* values SSL_connect returns: 1 on success, 0 on a controlled failure, a
\* negative value on a fatal one
ConnectCodes == {-1, 0, 1}

\* what SSL_get_error reports after a non-positive SSL_write or SSL_read
SslErrors == {"SSL_ERROR_WANT_READ", "SSL_ERROR_WANT_WRITE", "SSL_ERROR_SYSCALL"}

\* the text given to tls_writer, get_request in main
\* INT_MAX of <climits>, scaled down: the longest payload one call to
\* SSL_write or to send takes
INT_MAX == MaxLen

Request == Message(1, msglen)

\* one of the three calls is about to be made: layer.handshake(socket),
\* tls_writer{layer}(get_request) with a text of msglen bytes, or
\* tls_reader{layer}(std::cout); allow_retry(bool) was called or not
InitTls ==
  /\ \E call \in {"handshake", "write", "read", "socket_read", "socket_write"} :
       /\ obj = (CASE call = "handshake" -> "unique_tls_layer"
                   [] call = "write" -> "tls_writer"
                   [] call = "read" -> "tls_reader"
                   [] call = "socket_read" -> "socket_reader"
                   [] call = "socket_write" -> "socket_writer")
       /\ tls_pc = call
       /\ msglen \in (CASE call \in {"write", "socket_write"} -> 0..(INT_MAX + 1)
                        [] call = "socket_read" -> 0..MaxLen
                        [] OTHER -> {0})
       /\ params \in (CASE call = "socket_read" ->
                             [buf_size : 1..MaxLen, close_write : {FALSE}, win32 : BOOLEAN]
                        [] call = "socket_write" ->
                             [buf_size : {0}, close_write : BOOLEAN, win32 : BOOLEAN]
                        [] OTHER -> {[buf_size |-> 0, close_write |-> FALSE, win32 |-> FALSE]})
  /\ NoServer
  /\ tls_log = <<>>
  /\ NoSchannel
  /\ allow_retry_ \in BOOLEAN
  /\ tls_n_remain = msglen
  /\ tls_out = <<>>
  /\ tls_error = "none"

\* handshake(handle), but SSL_connect is called whether SSL_set_fd failed or not
TlsHandshakeUnbound ==
  /\ tls_pc = "handshake"
  /\ \E bound \in BOOLEAN, code \in ConnectCodes :
       /\ tls_log' = tls_log \o
            <<Call("SSL_set_fd", IF bound THEN "1" ELSE "0", 0), Call("SSL_connect", "", code)>>
       /\ tls_error' = IF code = 1 THEN ""
                       ELSE IF code = 0 THEN "Controlled TLS handshake error"
                       ELSE "Fatal TLS handshake error"
  /\ tls_pc' = "returned"
  /\ UNCHANGED <<net_vars, schannel_vars, allow_retry_, tls_n_remain, tls_out>>

\* unique_tls_layer::handshake(handle): SSL_set_fd, then SSL_connect once
TlsHandshake ==
  /\ tls_pc = "handshake"
  /\ \E bound \in BOOLEAN, code \in ConnectCodes :
       /\ tls_log' = tls_log \o
            <<Call("SSL_set_fd", IF bound THEN "1" ELSE "0", 0)>> \o
            (IF bound THEN <<Call("SSL_connect", "", code)>> ELSE <<>>)
       /\ tls_error' = IF ~bound THEN "Failed to set socket handle"
                       ELSE IF code = 1 THEN ""
                       ELSE IF code = 0 THEN "Controlled TLS handshake error"
                       ELSE "Fatal TLS handshake error"
  /\ tls_pc' = "returned"
  /\ UNCHANGED <<net_vars, schannel_vars, allow_retry_, tls_n_remain, tls_out>>

\* tls_writer::operator(), but a write that would block is retried whatever
\* allow_retry() says
TlsWriteAlwaysRetry ==
  /\ tls_pc = "write"
  /\ IF msglen > INT_MAX
       THEN /\ tls_error' = "Message length exceeds max allowed length"
            /\ tls_pc' = "returned"
            /\ UNCHANGED <<tls_log, tls_n_remain, tls_out>>
       ELSE IF tls_n_remain = 0
       THEN /\ tls_error' = ""
            /\ tls_pc' = "returned"
            /\ UNCHANGED <<tls_log, tls_n_remain, tls_out>>
       ELSE /\ Cardinality(Calls("SSL_write")) < MaxCalls
            /\ \E n_written \in -1..tls_n_remain, err \in SslErrors :
                 LET offset == msglen - tls_n_remain
                     retry == n_written <= 0 /\ err = "SSL_ERROR_WANT_WRITE"
                     failed == n_written <= 0 /\ ~retry
                 IN /\ tls_log' = Append(tls_log,
                         Call("SSL_write", IF n_written > 0 THEN "ok" ELSE err, tls_n_remain))
                    /\ tls_n_remain' = IF n_written > 0 THEN tls_n_remain - n_written
                                       ELSE tls_n_remain
                    /\ tls_out' = IF n_written > 0
                                    THEN tls_out \o SubSeq(Request, offset + 1, offset + n_written)
                                    ELSE tls_out
                    /\ tls_error' =
                         IF ~failed THEN "none"
                         ELSE IF err = "SSL_ERROR_WANT_WRITE"
                           THEN "TLS write retryable but writer has disabled retries"
                           ELSE "TLS write failed"
                    /\ tls_pc' = IF failed THEN "returned" ELSE "write"
  /\ UNCHANGED <<net_vars, schannel_vars, allow_retry_>>

\* tls_writer::operator(): the check of n_total against INT_MAX, made before
\* the loop, then the test of while (n_remain) and one iteration,
\* SSL_write(layer(), text.data() + (n_total - n_remain), n_remain); the log
\* keeps the count each SSL_write was called with
TlsWrite ==
  /\ tls_pc = "write"
  /\ IF msglen > INT_MAX
       THEN /\ tls_error' = "Message length exceeds max allowed length"
            /\ tls_pc' = "returned"
            /\ UNCHANGED <<tls_log, tls_n_remain, tls_out>>
       ELSE IF tls_n_remain = 0
       THEN /\ tls_error' = ""
            /\ tls_pc' = "returned"
            /\ UNCHANGED <<tls_log, tls_n_remain, tls_out>>
       ELSE /\ Cardinality(Calls("SSL_write")) < MaxCalls
            /\ \E n_written \in -1..tls_n_remain, err \in SslErrors :
                 LET offset == msglen - tls_n_remain
                     retry == n_written <= 0 /\ err = "SSL_ERROR_WANT_WRITE" /\ allow_retry_
                     failed == n_written <= 0 /\ ~retry
                 IN /\ tls_log' = Append(tls_log,
                         Call("SSL_write", IF n_written > 0 THEN "ok" ELSE err, tls_n_remain))
                    /\ tls_n_remain' = IF n_written > 0 THEN tls_n_remain - n_written
                                       ELSE tls_n_remain
                    /\ tls_out' = IF n_written > 0
                                    THEN tls_out \o SubSeq(Request, offset + 1, offset + n_written)
                                    ELSE tls_out
                    /\ tls_error' =
                         IF ~failed THEN "none"
                         ELSE IF err = "SSL_ERROR_WANT_WRITE"
                           THEN "TLS write retryable but writer has disabled retries"
                           ELSE "TLS write failed"
                    /\ tls_pc' = IF failed THEN "returned" ELSE "write"
  /\ UNCHANGED <<net_vars, schannel_vars, allow_retry_>>

\* tls_reader::operator(): one iteration of do { ... } while (SSL_has_pending):
\* SSL_read of at most buf_size_ bytes; a read that would block runs
\* continue, which in a do-while goes to the test of SSL_has_pending, as the
\* end of the body does
TlsRead ==
  /\ tls_pc = "read"
  /\ Cardinality(Calls("SSL_read")) < MaxCalls
  /\ \E n_read \in -1..MaxLen, err \in SslErrors, has_pending \in BOOLEAN :
       LET retry == n_read <= 0 /\ err = "SSL_ERROR_WANT_READ" /\ allow_retry_
           failed == n_read <= 0 /\ ~retry
       IN /\ tls_log' = tls_log \o
               <<Call("SSL_read", IF n_read > 0 THEN "ok" ELSE err,
                      IF n_read > 0 THEN n_read ELSE 0)>> \o
               (IF failed THEN <<>>
                ELSE <<Call("SSL_has_pending", IF has_pending THEN "1" ELSE "0", 0)>>)
          /\ tls_out' = IF n_read > 0
                          THEN tls_out \o [k \in 1..n_read |-> Received + k]
                          ELSE tls_out
          /\ tls_error' =
               IF failed
                 THEN IF err = "SSL_ERROR_WANT_READ"
                        THEN "TLS read retryable but reader has disabled retries"
                        ELSE "TLS read failed"
                 ELSE IF has_pending THEN "none" ELSE ""
          /\ tls_pc' = IF ~failed /\ has_pending THEN "read" ELSE "returned"
  /\ UNCHANGED <<net_vars, schannel_vars, allow_retry_, tls_n_remain>>

\* socket_reader::write, except that a poll that times out is reported as an
\* error
SocketReadTimeoutError ==
  /\ tls_pc = "socket_read"
  /\ \E n_new \in 0..MaxLen, closes \in BOOLEAN,
        outcome \in {"ok", "poll_failed", "read_failed"} :
       LET n_arrived == Len(tls_out) + Len(wire[1].c2s)
           buf == wire[1].c2s \o SubSeq(Request, n_arrived + 1, n_arrived + n_new)
           peer_closed == wire[1].cclosed \/ (closes /\ n_arrived + n_new = msglen)
           r == SocketReaderStep(buf, peer_closed, params.buf_size, tls_out)
           readable == PollIn(buf, peer_closed)
       IN /\ n_arrived + n_new <= msglen
          /\ ~wire[1].cclosed \/ n_new = 0
          /\ outcome = "read_failed" => readable
          /\ wire' = [wire EXCEPT ![1].c2s = IF outcome = "ok" THEN r.buf ELSE buf,
                                  ![1].cclosed = peer_closed]
          /\ tls_log' = tls_log \o
               (CASE outcome = "poll_failed" -> <<Call("poll", "error", 0)>>
                  [] ~readable -> <<Call("poll", "timeout", 0)>>
                  [] outcome = "read_failed" ->
                       <<Call("poll", "POLLIN", 0), Call("read", "error", params.buf_size)>>
                  [] OTHER ->
                       <<Call("poll", "POLLIN", 0), Call("read", "ok", r.n_read)>>)
          /\ tls_out' = IF outcome = "ok" THEN r.out ELSE tls_out
          /\ tls_error' = (CASE outcome = "read_failed" -> "read() failure"
                             [] outcome = "ok" /\ r.n_read = 0 ->
                                  IF readable THEN "" ELSE "poll() timeout"
                             [] OTHER -> "none")
          /\ tls_pc' = (CASE outcome = "poll_failed" -> "throw"
                          [] outcome = "read_failed" -> "returned"
                          [] r.n_read = 0 -> "returned"
                          [] OTHER -> "socket_read")
  /\ UNCHANGED <<cfg_vars, srv_vars, loop_vars, stops, pending, client, thread,
                 exec_vars, schannel_vars, allow_retry_, tls_n_remain>>

\* socket_reader::write: one iteration of do { ... } while (n_read): poll for
\* POLLIN with poll_timeout_, then one read of at most buf_size_ bytes. The
\* peer's sends and its close up to the moment of the poll are the step's
\* input; poll() throws std::runtime_error when ::poll fails
SocketRead ==
  /\ tls_pc = "socket_read"
  /\ \E n_new \in 0..MaxLen, closes \in BOOLEAN,
        outcome \in {"ok", "poll_failed", "read_failed"} :
       LET n_arrived == Len(tls_out) + Len(wire[1].c2s)
           buf == wire[1].c2s \o SubSeq(Request, n_arrived + 1, n_arrived + n_new)
           peer_closed == wire[1].cclosed \/ (closes /\ n_arrived + n_new = msglen)
           r == SocketReaderStep(buf, peer_closed, params.buf_size, tls_out)
           readable == PollIn(buf, peer_closed)
       IN /\ n_arrived + n_new <= msglen
          /\ ~wire[1].cclosed \/ n_new = 0
          /\ outcome = "read_failed" => readable
          /\ wire' = [wire EXCEPT ![1].c2s = IF outcome = "ok" THEN r.buf ELSE buf,
                                  ![1].cclosed = peer_closed]
          /\ tls_log' = tls_log \o
               (CASE outcome = "poll_failed" -> <<Call("poll", "error", 0)>>
                  [] ~readable -> <<Call("poll", "timeout", 0)>>
                  [] outcome = "read_failed" ->
                       <<Call("poll", "POLLIN", 0), Call("read", "error", params.buf_size)>>
                  [] OTHER ->
                       <<Call("poll", "POLLIN", 0), Call("read", "ok", r.n_read)>>)
          /\ tls_out' = IF outcome = "ok" THEN r.out ELSE tls_out
          /\ tls_error' = (CASE outcome = "read_failed" -> "read() failure"
                             [] outcome = "ok" /\ r.n_read = 0 -> ""
                             [] OTHER -> "none")
          /\ tls_pc' = (CASE outcome = "poll_failed" -> "throw"
                          [] outcome = "read_failed" -> "returned"
                          [] r.n_read = 0 -> "returned"
                          [] OTHER -> "socket_read")
  /\ UNCHANGED <<cfg_vars, srv_vars, loop_vars, stops, pending, client, thread,
                 exec_vars, schannel_vars, allow_retry_, tls_n_remain>>

\* socket_writer::read(string_view), except that the write half is shut down
\* whether close_write_ is set or not
SocketWriteAlwaysShutdown ==
  /\ tls_pc = "socket_write"
  /\ IF params.win32 /\ msglen > INT_MAX
       THEN /\ tls_error' = "Message length exceeds max allowed length"
            /\ tls_pc' = "returned"
            /\ UNCHANGED <<tls_log, tls_n_remain, tls_out>>
       ELSE IF tls_n_remain = 0
       THEN /\ tls_log' = Append(tls_log, Call("shutdown", "write", 0))
            /\ tls_error' = ""
            /\ tls_pc' = "returned"
            /\ UNCHANGED <<tls_n_remain, tls_out>>
       ELSE /\ Cardinality(Calls("write")) < MaxCalls
            /\ \E n_last \in -1..tls_n_remain :
                 LET n_sent == msglen - tls_n_remain
                 IN /\ tls_log' = Append(tls_log,
                         Call("write", IF n_last < 0 THEN "error" ELSE "ok", n_sent))
                    /\ tls_n_remain' = IF n_last < 0 THEN tls_n_remain
                                       ELSE tls_n_remain - n_last
                    /\ tls_out' = IF n_last < 0 THEN tls_out
                                  ELSE tls_out \o SubSeq(Request, n_sent + 1, n_sent + n_last)
                    /\ tls_error' = IF n_last < 0 THEN "write() failure" ELSE "none"
                    /\ tls_pc' = IF n_last < 0 THEN "returned" ELSE "socket_write"
  /\ UNCHANGED <<net_vars, schannel_vars, allow_retry_>>

\* socket_writer::read(string_view) without the check of the length that the
\* Windows build makes
SocketWriteUnchecked ==
  /\ tls_pc = "socket_write"
  /\ IF FALSE
       THEN /\ tls_error' = "Message length exceeds max allowed length"
            /\ tls_pc' = "returned"
            /\ UNCHANGED <<tls_log, tls_n_remain, tls_out>>
       ELSE IF tls_n_remain = 0
       THEN /\ tls_log' = IF params.close_write
                            THEN Append(tls_log, Call("shutdown", "write", 0))
                            ELSE tls_log
            /\ tls_error' = ""
            /\ tls_pc' = "returned"
            /\ UNCHANGED <<tls_n_remain, tls_out>>
       ELSE /\ Cardinality(Calls("write")) < MaxCalls
            /\ \E n_last \in -1..tls_n_remain :
                 LET n_sent == msglen - tls_n_remain
                 IN /\ tls_log' = Append(tls_log,
                         Call("write", IF n_last < 0 THEN "error" ELSE "ok", n_sent))
                    /\ tls_n_remain' = IF n_last < 0 THEN tls_n_remain
                                       ELSE tls_n_remain - n_last
                    /\ tls_out' = IF n_last < 0 THEN tls_out
                                  ELSE tls_out \o SubSeq(Request, n_sent + 1, n_sent + n_last)
                    /\ tls_error' = IF n_last < 0 THEN "write() failure" ELSE "none"
                    /\ tls_pc' = IF n_last < 0 THEN "returned" ELSE "socket_write"
  /\ UNCHANGED <<net_vars, schannel_vars, allow_retry_>>

\* socket_writer::read(string_view): on Windows the check of n_remain against
\* INT_MAX, then the test of while (n_remain) and one iteration,
\* write(handle_, text.data() + n_sent, n_remain) or send; after the loop
\* shutdown(handle_, write) if close_write_. The log keeps the offset each
\* write was issued at
SocketWrite ==
  /\ tls_pc = "socket_write"
  /\ IF params.win32 /\ msglen > INT_MAX
       THEN /\ tls_error' = "Message length exceeds max allowed length"
            /\ tls_pc' = "returned"
            /\ UNCHANGED <<tls_log, tls_n_remain, tls_out>>
       ELSE IF tls_n_remain = 0
       THEN /\ tls_log' = IF params.close_write
                            THEN Append(tls_log, Call("shutdown", "write", 0))
                            ELSE tls_log
            /\ tls_error' = ""
            /\ tls_pc' = "returned"
            /\ UNCHANGED <<tls_n_remain, tls_out>>
       ELSE /\ Cardinality(Calls("write")) < MaxCalls
            /\ \E n_last \in -1..tls_n_remain :
                 LET n_sent == msglen - tls_n_remain
                 IN /\ tls_log' = Append(tls_log,
                         Call("write", IF n_last < 0 THEN "error" ELSE "ok", n_sent))
                    /\ tls_n_remain' = IF n_last < 0 THEN tls_n_remain
                                       ELSE tls_n_remain - n_last
                    /\ tls_out' = IF n_last < 0 THEN tls_out
                                  ELSE tls_out \o SubSeq(Request, n_sent + 1, n_sent + n_last)
                    /\ tls_error' = IF n_last < 0 THEN "write() failure" ELSE "none"
                    /\ tls_pc' = IF n_last < 0 THEN "returned" ELSE "socket_write"
  /\ UNCHANGED <<net_vars, schannel_vars, allow_retry_>>

TlsNext ==
  \/ TlsHandshake
  \/ TlsWrite
  \/ TlsRead
  \/ SocketRead
  \/ SocketWrite

TlsSpec == InitTls /\ [][TlsNext]_vars

(***************************************************************************)
(* unique_socket (socket.hh): objects of one scope that open, move,        *)
(* release and close socket handles.                                       *)
(***************************************************************************)
\* names of the unique_socket objects of the scope
SocketObjects == {"a", "b", "c"}

\* handles released to the caller with release()
Released == {tls_log[i].n : i \in Calls("release")}

\* no unique_socket object exists yet and the OS has handed out no handle;
\* handle 0 stands for bad_socket_handle
InitSockets ==
  /\ obj = "unique_socket"
  /\ msglen = 0
  /\ NoServer
  /\ params = [port |-> 0, max_pending |-> 0, max_concurrency |-> 0]
  /\ tls_pc = "sockets"
  /\ tls_log = <<>>
  /\ ctx_buffer = <<>>
  /\ ctx_bufsize = 0
  /\ building_context = FALSE
  /\ status = "none"
  /\ input_bufs = [cbBuffer |-> 0, bytes |-> <<>>]
  /\ handle_ = <<>>
  /\ freed = <<>>
  /\ NoSsl

\* unique_socket x{handle}, unique_socket x{af_domain, type} and the result of
\* accept: x owns a handle the OS has just handed out; unique_socket x{} holds
\* bad_socket_handle
SocketConstruct(x) ==
  /\ tls_pc = "sockets"
  /\ x \notin DOMAIN handle_
  /\ \E opened \in BOOLEAN :
       LET h == Cardinality(DOMAIN freed) + 1
       IN IF opened
            THEN /\ h <= MaxHandles
                 /\ handle_' = handle_ @@ (x :> h)
                 /\ freed' = freed @@ (h :> 0)
            ELSE /\ handle_' = handle_ @@ (x :> 0)
                 /\ UNCHANGED freed
  /\ UNCHANGED <<net_vars, ssl_vars, tls_pc, tls_log, ctx_buffer, ctx_bufsize,
                 building_context, status, input_bufs>>

\* unique_socket x{std::move(y)}: handle_ = socket.release()
SocketMoveConstruct(x, y) ==
  /\ tls_pc = "sockets"
  /\ x \notin DOMAIN handle_
  /\ y \in DOMAIN handle_
  /\ handle_' = [handle_ EXCEPT ![y] = 0] @@ (x :> handle_[y])
  /\ UNCHANGED <<net_vars, ssl_vars, tls_pc, tls_log, ctx_buffer, ctx_bufsize,
                 building_context, status, input_bufs, freed>>

\* x = std::move(y): destroy_handle(), which closes a valid handle and
\* leaves the member as it is, then handle_ = socket.release(), which reads
\* the handle of y and sets it to bad_socket_handle; x and y may be the same
\* object. A handle closed twice ends the run
SocketMoveAssign(x, y) ==
  /\ tls_pc = "sockets"
  /\ x \in DOMAIN handle_
  /\ y \in DOMAIN handle_
  /\ \A h \in DOMAIN freed : freed[h] <= 1
  /\ freed' = destroy_handle(freed, handle_[x])
  /\ handle_' = [[handle_ EXCEPT ![y] = 0] EXCEPT ![x] = handle_[y]]
  /\ UNCHANGED <<net_vars, ssl_vars, tls_pc, tls_log, ctx_buffer, ctx_bufsize,
                 building_context, status, input_bufs>>

\* x.release(): the caller gets the handle, x holds bad_socket_handle
SocketRelease(x) ==
  /\ tls_pc = "sockets"
  /\ x \in DOMAIN handle_
  /\ handle_[x] # 0
  /\ tls_log' = Append(tls_log, Call("release", "", handle_[x]))
  /\ handle_' = [handle_ EXCEPT ![x] = 0]
  /\ UNCHANGED <<net_vars, ssl_vars, tls_pc, ctx_buffer, ctx_bufsize,
                 building_context, status, input_bufs, freed>>

\* ~unique_socket() of x at the end of its lifetime
SocketDestroy(x) ==
  /\ tls_pc = "sockets"
  /\ x \in DOMAIN handle_
  /\ \A h \in DOMAIN freed : freed[h] <= 1
  /\ freed' = destroy_handle(freed, handle_[x])
  /\ handle_' = [w \in DOMAIN handle_ \ {x} |-> handle_[w]]
  /\ UNCHANGED <<net_vars, ssl_vars, tls_pc, tls_log, ctx_buffer, ctx_bufsize,
                 building_context, status, input_bufs>>

SocketNext ==
  \/ \E x \in SocketObjects : SocketConstruct(x)
  \/ \E x \in SocketObjects, y \in SocketObjects : SocketMoveConstruct(x, y)
  \/ \E x \in SocketObjects, y \in SocketObjects : SocketMoveAssign(x, y)
  \/ \E x \in SocketObjects : SocketRelease(x)
  \/ \E x \in SocketObjects : SocketDestroy(x)

SocketSpec == InitSockets /\ [][SocketNext]_vars

(***************************************************************************)
(* The servers when a system call fails.  read, write, poll and accept can *)
(* fail, std::thread::join and the constructor of std::thread can throw    *)
(* std::system_error; the actions below are these outcomes, added to the   *)
(* steps of the servers.                                                   *)
(***************************************************************************)
\* the lambda of echoserver::start when read(), write() or poll() fails:
\* operator<< or operator>> runs throw_on_error() (poll() throws itself), the
\* lambda catches nothing, and an exception that leaves the function of a
\* std::thread calls std::terminate: the process ends, the system closes
\* its sockets
ThreadIoFail(c) ==
  /\ obj = "echoserver"
  /\ thread[c].pc \in {"read", "write"}
  /\ thread' = [d \in Clients |->
                  IF thread[d].pc \in {"read", "write"}
                    THEN [thread[d] EXCEPT !.pc = "terminated"] ELSE thread[d]]
  /\ pc' = [t \in Callers |-> "terminated"]
  /\ wire' = [d \in Clients |->
                IF client[d].pc \notin {"unused", "connect"}
                  THEN [wire[d] EXCEPT !.sclosed = TRUE] ELSE wire[d]]
  /\ UNCHANGED <<fixed_vars, srv_vars, cli_socket, starts, stops, pending, client>>

\* echoserver::start when std::system_error is thrown inside the loop body:
\* by thread_queue_.front().join(), in which case cli_socket is closed as the
\* exception leaves start(), or by the constructor of std::thread, after
\* cli_socket.release() gave the handle up: nothing closes it
EchoSystemError(t) ==
  /\ obj = "echoserver"
  /\ \/ pc[t] = "join" /\ thread_queue_ # <<>>
     \/ pc[t] = "emplace"
  /\ wire' = IF pc[t] = "join"
               THEN [wire EXCEPT ![cli_socket[t]].sclosed = TRUE] ELSE wire
  /\ cli_socket' = [cli_socket EXCEPT ![t] = 0]
  /\ pc' = [pc EXCEPT ![t] = "throw"]
  /\ UNCHANGED <<fixed_vars, srv_vars, starts, stops, pending, client, thread>>

\* join_threads when thread.join() throws std::system_error for a thread that
\* has ended: catch (const std::system_error&) {} and the loop goes on with
\* the next thread
EchoJoinThreadsFail(t) ==
  /\ obj = "echoserver"
  /\ pc[t] = "join_threads"
  /\ NextToJoin(thread_queue_) # 0
  /\ thread[NextToJoin(thread_queue_)].pc = "finished"
  /\ thread' = [thread EXCEPT ![NextToJoin(thread_queue_)].pc = "join_failed"]
  /\ UNCHANGED <<fixed_vars, srv_vars, loop_vars, stops, pending, client, wire>>

\* start() of either server when poll() or accept() fails: both throw
\* std::runtime_error, which leaves start() from inside the loop
LoopIoFail(t) ==
  /\ obj \in {"echoserver", "ipv4_server"}
  /\ pc[t] \in {"wait_pollin", "accept"}
  /\ pc' = [pc EXCEPT ![t] = "throw"]
  /\ UNCHANGED <<fixed_vars, srv_vars, cli_socket, starts, stops, conn_vars>>

FaultNext ==
  \/ Next
  \/ \E c \in Clients : ThreadIoFail(c)
  \/ \E t \in Callers : EchoSystemError(t)
  \/ \E t \in Callers : EchoJoinThreadsFail(t)
  \/ \E t \in Callers : LoopIoFail(t)

FaultSpec == Init /\ [][FaultNext]_vars

(***************************************************************************)
(* ipv4_server::start(params, true): caller 1 starts the server in the     *)
(* background, caller 2 is bg_thread_, which runs start(params, false).    *)
(* stop() is called once start() has returned to caller 1.                 *)
(***************************************************************************)
\* start(params, true): "if already started, throw", then
\* bg_thread_ = std::thread{&ipv4_server::start, this, params, false} and
\* return EXIT_SUCCESS
Ipv4StartBackground(t) ==
  /\ obj = "ipv4_server"
  /\ t = 1
  /\ pc[t] \in Outside
  /\ starts[t] > 0
  /\ starts' = [starts EXCEPT ![t] = @ - 1, ![2] = IF running_ THEN @ ELSE @ + 1]
  /\ pc' = [pc EXCEPT ![t] = IF running_ THEN "throw" ELSE "EXIT_SUCCESS"]
  /\ UNCHANGED <<fixed_vars, srv_vars, cli_socket, stops, conn_vars>>

\* one background start() while MaxClients - 1 clients connect
InitBackground ==
  /\ InitIpv4
  /\ Scenario(MaxClients - 1, {0}, {0}, <<1, 0>>, MaxStops)

BackgroundNext ==
  \/ \E c \in Clients : ClientConnect(c)
  \/ \E t \in Callers : Ipv4StartBackground(t)
  \/ Ipv4Step
  \/ pc[1] = "EXIT_SUCCESS" /\ Stop

\* the OS schedules bg_thread_ again and again
BackgroundSpec ==
  InitBackground /\ [][BackgroundNext]_vars /\ WF_vars(Ipv4Step)

(***************************************************************************)
(* echoserver::start of echoserver.h and echoserver.h++: a blocking accept *)
(* into the local cli_sockfd, the thread queue, and a thread whose lambda  *)
(* captures cli_sockfd by reference.  cli_socket[1] is cli_sockfd,         *)
(* handle_[k] the handle that the unique_socket of thread k adopted, and   *)
(* freed[h] counts the closes of handle h.  Connections and threads are    *)
(* numbered in accept order.                                               *)
(***************************************************************************)
\* the server after listen(): max_threads_ >= 1 threads, nothing accepted
InitLegacy ==
  /\ obj \in {"echoserver.h", "echoserver.h++"}
  /\ msglen = 0
  /\ params \in [port : {0}, max_pending : {MaxClients},
                  max_concurrency : 1..MaxThreads]
  /\ running_ = FALSE
  /\ socket_ = "listening"
  /\ address_ = 0
  /\ max_threads_ = params.max_concurrency
  /\ max_pending_ = params.max_pending
  /\ thread_queue_ = <<>>
  /\ pc = [t \in Callers |-> IF t = 1 THEN "accept" ELSE "idle"]
  /\ cli_socket = [t \in Callers |-> 0]
  /\ starts = [t \in Callers |-> 0]
  /\ stops = 0
  /\ InitConn(MaxClients)
  /\ NoExecutor
  /\ tls_pc = "none"
  /\ tls_log = <<>>
  /\ ctx_buffer = <<>>
  /\ ctx_bufsize = 0
  /\ building_context = FALSE
  /\ status = "none"
  /\ input_bufs = [cbBuffer |-> 0, bytes |-> <<>>]
  /\ handle_ = <<>>
  /\ freed = [c \in Clients |-> 0]
  /\ NoSsl

\* cli_sockfd = accept(socket_, ...); unique_socket cli_socket{cli_sockfd};
\* if (thread_queue_.size() == max_threads_)
LegacyAccept(t) ==
  /\ obj \in {"echoserver.h", "echoserver.h++"}
  /\ pc[t] = "accept"
  /\ pending # <<>>
  /\ cli_socket' = [cli_socket EXCEPT ![t] = Head(pending)]
  /\ pending' = Tail(pending)
  /\ pc' = [pc EXCEPT ![t] =
              IF AtCapacity(thread_queue_, max_threads_) THEN "join" ELSE "emplace"]
  /\ UNCHANGED <<fixed_vars, srv_vars, starts, stops, client, thread, wire>>

\* thread_queue_.front().join(); thread_queue_.pop_front()
LegacyEvict(t) ==
  /\ obj \in {"echoserver.h", "echoserver.h++"}
  /\ pc[t] = "join"
  /\ thread_queue_ # <<>>
  /\ thread[Front(thread_queue_)].pc = "finished"
  /\ thread' = [thread EXCEPT ![Front(thread_queue_)].pc = "joined"]
  /\ thread_queue_' = PopFront(thread_queue_)
  /\ pc' = [pc EXCEPT ![t] = "emplace"]
  /\ UNCHANGED <<fixed_vars, running_, socket_, address_, max_threads_, max_pending_,
                 cli_socket, starts, stops, pending, client, wire>>

\* cli_socket.release(); thread_queue_.emplace_back(std::thread{[&cli_sockfd]
\* {...}}): the thread exists, its lambda has not run yet; cli_sockfd keeps
\* its value until the next accept
LegacySpawn(t) ==
  /\ obj \in {"echoserver.h", "echoserver.h++"}
  /\ pc[t] = "emplace"
  /\ thread' = [thread EXCEPT ![cli_socket[t]].pc = "spawned"]
  /\ thread_queue_' = EmplaceBack(thread_queue_, cli_socket[t])
  /\ pc' = [pc EXCEPT ![t] = "accept"]
  /\ UNCHANGED <<fixed_vars, running_, socket_, address_, max_threads_, max_pending_,
                 cli_socket, starts, stops, pending, client, wire>>

\* the lambda of thread k: unique_socket socket{cli_sockfd} reads cli_sockfd
\* through the reference when the thread runs, then the thread echoes on that
\* handle and its unique_socket closes it
LegacyThread(k) ==
  /\ obj \in {"echoserver.h", "echoserver.h++"}
  /\ thread[k].pc = "spawned"
  /\ handle_' = handle_ @@ (k :> cli_socket[1])
  /\ freed' = destroy_handle(freed, cli_socket[1])
  /\ wire' = [wire EXCEPT ![cli_socket[1]].sclosed = TRUE]
  /\ thread' = [thread EXCEPT ![k].pc = "finished"]
  /\ UNCHANGED <<cfg_vars, exec_vars, srv_vars, loop_vars, stops, pending, client,
                 tls_pc, tls_log, ctx_buffer, ctx_bufsize, building_context, status,
                 input_bufs, ssl_vars>>

LegacyNext ==
  \/ \E c \in Clients : ClientConnect(c)
  \/ \E t \in Callers : LegacyAccept(t)
  \/ \E t \in Callers : LegacyEvict(t)
  \/ \E t \in Callers : LegacySpawn(t)
  \/ \E k \in Clients : LegacyThread(k)

LegacySpec == InitLegacy /\ [][LegacyNext]_vars

(***************************************************************************)
(* pdnnet_socket_onlread2 (socket.c): read a socket until end of           *)
(* transmission, calling read_action after each read and post_action once  *)
(* at the end.  params holds the arguments: read_size and whether each     *)
(* action pointer is non-NULL; msglen is the number of bytes the peer      *)
(* sends before it closes.  status is <<>> while the local status is       *)
(* uninitialized and <<v>> once an action result was stored; tls_out is    *)
(* <<>> until the function returns and <<v>> after it returned v; freed    *)
(* counts the calls of free on msg_buf (allocation 1).                     *)
(***************************************************************************)
\* errno values of <errno.h>
EIO == 5
ENOMEM == 12
EINVAL == 22

\* what an action can return: an error, success, a positive value
ActionResults == {-EIO, 0, 1}

\* the values a read of the uninitialized status can yield
Indeterminate == {-1, 0, 1}

InitOnlread ==
  /\ obj = "pdnnet_socket_onlread2"
  /\ msglen \in 0..MaxLen
  /\ NoServer
  /\ \E n \in 0..MaxLen, ra \in BOOLEAN, pa \in BOOLEAN :
       params = [read_size |-> n, read_action |-> ra, post_action |-> pa]
  /\ tls_pc = "entry"
  /\ tls_log = <<>>
  /\ ctx_buffer = <<>>
  /\ ctx_bufsize = 0
  /\ building_context = FALSE
  /\ status = <<>>
  /\ input_bufs = [cbBuffer |-> 0, bytes |-> <<>>]
  /\ handle_ = <<>>
  /\ freed = <<>>
  /\ allow_retry_ = TRUE
  /\ tls_n_remain = msglen
  /\ tls_out = <<>>
  /\ tls_error = "none"

\* if (!read_size) return -EINVAL; msg_buf = malloc(read_size + 1);
\* if (!msg_buf) return -ENOMEM;
OnlreadEntry ==
  /\ obj = "pdnnet_socket_onlread2"
  /\ tls_pc = "entry"
  /\ IF params.read_size = 0
       THEN /\ tls_out' = <<-EINVAL>>
            /\ tls_pc' = "returned"
            /\ UNCHANGED <<freed, tls_log>>
       ELSE \E allocated \in BOOLEAN :
              IF allocated
                THEN /\ freed' = <<0>>
                     /\ tls_log' = Append(tls_log, Call("malloc", "ok", params.read_size + 1))
                     /\ tls_pc' = "read"
                     /\ UNCHANGED tls_out
                ELSE /\ tls_out' = <<-ENOMEM>>
                     /\ tls_log' = Append(tls_log, Call("malloc", "failed", params.read_size + 1))
                     /\ tls_pc' = "returned"
                     /\ UNCHANGED freed
  /\ UNCHANGED <<net_vars, ctx_buffer, ctx_bufsize, building_context, status,
                 input_bufs, handle_, allow_retry_, tls_n_remain, tls_error>>

\* one pass of the do loop up to the action: memset, read; a failed read
\* returns -errno at once; otherwise the counters are updated and the
\* action, if any, comes next; without an action the loop condition
\* n_read_msg decides
OnlreadRead ==
  /\ obj = "pdnnet_socket_onlread2"
  /\ tls_pc = "read"
  /\ \E n_read_msg \in -1..Min(params.read_size, tls_n_remain) :
       /\ n_read_msg = 0 => tls_n_remain = 0
       /\ IF n_read_msg < 0
            THEN \E errno \in {EIO, EINVAL} :
                   /\ tls_out' = <<-errno>>
                   /\ tls_log' = Append(tls_log, Call("read", "failed", errno))
                   /\ tls_pc' = "returned"
                   /\ UNCHANGED <<ctx_bufsize, tls_n_remain>>
            ELSE /\ ctx_bufsize' = n_read_msg
                 /\ tls_n_remain' = tls_n_remain - n_read_msg
                 /\ tls_log' = Append(tls_log, Call("read", "ok", n_read_msg))
                 /\ tls_pc' = IF params.read_action THEN "read_action"
                              ELSE IF n_read_msg # 0 THEN "read"
                              ELSE "post_action"
                 /\ UNCHANGED tls_out
  /\ UNCHANGED <<net_vars, ctx_buffer, building_context, status, input_bufs,
                 handle_, freed, allow_retry_, tls_error>>

\* if (read_action && (status = read_action(...)) < 0) goto end;
\* } while (read_state.n_read_msg);
OnlreadReadAction ==
  /\ obj = "pdnnet_socket_onlread2"
  /\ tls_pc = "read_action"
  /\ \E r \in ActionResults :
       /\ status' = <<r>>
       /\ tls_log' = Append(tls_log, Call("read_action", "returned", r))
       /\ tls_pc' = IF r < 0 THEN "end"
                    ELSE IF ctx_bufsize # 0 THEN "read"
                    ELSE "post_action"
  /\ UNCHANGED <<net_vars, ssl_vars, ctx_buffer, ctx_bufsize, building_context,
                 input_bufs, handle_, freed>>

\* if (post_action && (status = post_action(...)) < 0) goto end;
OnlreadPostAction ==
  /\ obj = "pdnnet_socket_onlread2"
  /\ tls_pc = "post_action"
  /\ IF params.post_action
       THEN \E r \in ActionResults :
              /\ status' = <<r>>
              /\ tls_log' = Append(tls_log, Call("post_action", "returned", r))
       ELSE UNCHANGED <<status, tls_log>>
  /\ tls_pc' = "end"
  /\ UNCHANGED <<net_vars, ssl_vars, ctx_buffer, ctx_bufsize, building_context,
                 input_bufs, handle_, freed>>

\* end: free(read_state.msg_buf); return status; status holds no value when
\* no action was called
OnlreadEnd ==
  /\ obj = "pdnnet_socket_onlread2"
  /\ tls_pc = "end"
  /\ freed' = destroy_handle(freed, 1)
  /\ tls_log' = Append(tls_log, Call("free", "ok", 0))
  /\ IF status = <<>>
       THEN \E v \in Indeterminate : tls_out' = <<v>>
       ELSE tls_out' = status
  /\ tls_pc' = "returned"
  /\ UNCHANGED <<net_vars, ctx_buffer, ctx_bufsize, building_context, status,
                 input_bufs, handle_, allow_retry_, tls_n_remain, tls_error>>

OnlreadNext ==
  \/ OnlreadEntry
  \/ OnlreadRead
  \/ OnlreadReadAction
  \/ OnlreadPostAction
  \/ OnlreadEnd

OnlreadSpec == InitOnlread /\ [][OnlreadNext]_vars

(***************************************************************************)
(* Claims.                                                                 *)
(***************************************************************************)
\* caller 2 has made no start() call: one thread runs the accept loop
OneStarter == pc[2] = "idle"

\* connection threads that were spawned and are not joined yet
LiveThreads == {c \in Clients : thread[c].pc \in {"read", "write", "finished"}}

\* C1: an echoserver started with max_concurrency M >= 1 never tracks more
\* than M threads in its queue, and never has more than M connection threads
\* that were spawned and not yet joined, however many connections it accepts.
C1_BoundedConcurrency ==
  (obj = "echoserver" /\ OneStarter /\ params.max_concurrency >= 1) =>
    /\ Len(thread_queue_) <= params.max_concurrency
    /\ Cardinality(LiveThreads) <= params.max_concurrency

\* C1 witness: the queue is full again after its oldest thread was evicted
\* for a further connection.
C1_Witness ==
  /\ obj = "echoserver" /\ OneStarter /\ params.max_concurrency >= 1
  /\ pc[1] = "loop" /\ running_
  /\ Len(thread_queue_) = params.max_concurrency
  /\ \E c \in Clients : thread[c].pc = "joined"

\* the connections of a queue
Tracked(queue) == {queue[k] : k \in 1..Len(queue)}

\* connections are numbered in accept order: a queue ordered by accept order
InAcceptOrder(queue) == \A i, j \in 1..Len(queue) : i < j => queue[i] < queue[j]

\* the thread that was spawned earliest among those of a non-empty queue
Oldest(queue) == CHOOSE c \in Tracked(queue) : \A d \in Tracked(queue) : c <= d

\* C2: when the accept loop of echoserver::start or of event_loop admits a
\* connection while the queue holds max_threads entries, the thread it joins
\* and removes is the earliest spawned of those still tracked, exactly one
\* thread leaves the queue, and the new thread is appended at the back; the
\* queue is ordered by accept order at all times.
C2_FifoEviction ==
  [][(obj \in {"echoserver", "event_loop"} /\ OneStarter) =>
       /\ InAcceptOrder(thread_queue_')
       /\ (pc[1] = "join" /\ pc'[1] = "emplace") =>
            /\ Len(thread_queue_) = max_threads_
            /\ thread[Oldest(thread_queue_)].pc = "finished"
            /\ thread'[Oldest(thread_queue_)].pc = "joined"
            /\ \A d \in Clients \ {Oldest(thread_queue_)} : thread'[d] = thread[d]
            /\ Tracked(thread_queue_') = Tracked(thread_queue_) \ {Oldest(thread_queue_)}
            /\ Len(thread_queue_') = Len(thread_queue_) - 1
       /\ (pc[1] = "emplace" /\ pc'[1] # "emplace") =>
            /\ thread_queue_' = thread_queue_ \o <<cli_socket[1]>>
            /\ thread[cli_socket[1]].pc = "none"
            /\ thread'[cli_socket[1]].pc = "read"
            /\ \A d \in Tracked(thread_queue_) : d < cli_socket[1]]_vars

\* C2 witness: with two or more slots, the first thread was evicted and the
\* queue is full again, led by the second connection.
C2_Witness ==
  /\ obj \in {"echoserver", "event_loop"} /\ OneStarter
  /\ max_threads_ >= 2
  /\ Len(thread_queue_) = max_threads_
  /\ thread[1].pc = "joined"
  /\ Head(thread_queue_) = 2
  /\ thread_queue_[Len(thread_queue_)] = max_threads_ + 1

\* C3: echo round trip: whatever the payload P of a client and however the
\* client, the accept loop and the connection thread interleave, the
\* response that echo_client_connect reads from the connection thread of the
\* echoserver is exactly P.
C3_EchoRoundTrip ==
  \A c \in Clients :
    (/\ obj = "echoserver" /\ OneStarter
     /\ thread[c].pc \in {"finished", "joined"}
     /\ client[c].pc = "done") => client[c].ss = Message(c, msglen)

\* the connection of client c was accepted, served by a thread and closed
Served(c) == thread[c].pc \in {"finished", "joined"} /\ wire[c].sclosed

\* C4: with K concurrent clients against an echoserver of max_threads =
\* M < K, every one of the K connections is eventually accepted, served by a
\* connection thread and closed: the forced join of the oldest thread never
\* blocks the accept loop forever.
C4_AllServed ==
  <>(\A c \in Clients : client[c].pc # "unused" => Served(c))

\* the same for the servers with at least one thread slot
AllServedWithSlots ==
  (max_threads_ >= 1 /\ running_) ~> (\A c \in Clients : client[c].pc # "unused" => Served(c))

\* where start() is once its loop has read running_ as false
StopObserved == {"join_threads", "reset_state", "reset_running", "reset_success"}

\* start() of caller 1 has returned from its accept loop
LoopReturned ==
  \/ obj = "echoserver" /\ pc[1] = "EXIT_SUCCESS"
  \/ obj = "ipv4_server" /\ pc[1] \in {"EXIT_SUCCESS", "EXIT_FAILURE"}

\* C5: cooperative stop.  stop() interrupts no serve call in flight and no
\* running connection thread; once the loop has observed running == false it
\* accepts nothing further; ipv4_server::start returns only after the current
\* serve call returned, echoserver::start only after every thread of the queue
\* was joined; when start returns, running() is false and the listening
\* socket is closed.
C5_CooperativeStop ==
  /\ [](OneStarter /\ LoopReturned =>
          /\ LiveThreads = {}
          /\ cli_socket[1] = 0
          /\ ~running_
          /\ socket_ = "bad")
  /\ [][OneStarter =>
          /\ stops' # stops => UNCHANGED <<pc, cli_socket, conn_vars, thread_queue_, socket_>>
          /\ \A c \in Clients :
               /\ thread[c].pc \in {"read", "write"} =>
                    thread'[c].pc \in {"read", "write", "finished"}
               /\ thread[c].pc = "finished" => thread'[c].pc \in {"finished", "joined"}
          /\ pc[1] = "serve" /\ pc'[1] # "serve" =>
               /\ pc'[1] \in {"loop", "reset_failure"}
               /\ wire'[cli_socket[1]].sclosed
          /\ pc[1] \in StopObserved =>
               /\ pc'[1] \in StopObserved \cup {"EXIT_SUCCESS"}
               /\ cli_socket' = cli_socket
               /\ \A c \in Clients : thread[c].pc = "none" => thread'[c].pc = "none"]_vars

\* C5 witness: the accept loop has observed the stop() while a connection
\* thread is still reading or writing, and joins the threads of the queue.
C5_Witness ==
  /\ obj = "echoserver" /\ OneStarter
  /\ pc[1] = "join_threads" /\ ~running_
  /\ \E c \in Clients : thread[c].pc \in {"read", "write"} /\ Head(thread_queue_) = c

\* caller t makes a start() call in this step
StartCalled(t) == starts'[t] < starts[t]

\* how a refused start() ends: ipv4_server throws std::runtime_error,
\* echoserver returns EXIT_FAILURE
Refused == IF obj = "ipv4_server" THEN "throw" ELSE "EXIT_FAILURE"

\* C6: a start() call on a server whose running flag is true is reported as
\* a failure and modifies nothing: listening socket, address, the two limits,
\* thread queue and running flag stay as they are, and the accept loop that
\* is running, its connections and its threads are left alone.
C6_StartWhileRunning ==
  [][\A t \in Callers :
       (StartCalled(t) /\ running_) =>
         /\ pc'[t] = Refused
         /\ UNCHANGED <<srv_vars, cli_socket, conn_vars>>
         /\ \A u \in Callers \ {t} : pc'[u] = pc[u]]_vars

\* C6 witness: the second caller's start() was refused while the first
\* caller's accept loop runs on.
C6_Witness ==
  /\ running_
  /\ pc[2] = Refused
  /\ starts[2] = 0
  /\ pc[1] \in {"loop", "wait_pollin", "accept"}
  /\ socket_ = "listening"

\* C7: stop() is idempotent and safe at any time, also before any start()
\* and twice in a row: after each call running() is false, and the call
\* changes no other server state (socket, address, limits, thread queue).
C7_StopIdempotent ==
  [][stops' < stops =>
       /\ ~running_'
       /\ UNCHANGED <<socket_, address_, max_threads_, max_pending_, thread_queue_>>
       /\ UNCHANGED <<loop_vars, conn_vars>>]_vars

\* C7 witness: stop() was called twice on a server that was never started.
C7_Witness ==
  /\ obj \in {"echoserver", "ipv4_server"}
  /\ stops <= MaxStops - 2
  /\ \A t \in Callers : pc[t] = "idle" /\ starts[t] = 1
  /\ ~running_

\* C8: for a server started with requested port 0, whenever running() is
\* true, port() is the non-zero port the OS assigned: getsockname has
\* resolved the address before the running flag is set.
C8_EphemeralPort ==
  (obj \in {"echoserver", "ipv4_server"} /\ OneStarter /\ params.port = 0 /\ running_) =>
    address_ # 0

\* C8 witness: a started server observed running by the test's busy wait.
C8_Witness ==
  /\ obj \in {"echoserver", "ipv4_server"} /\ OneStarter /\ params.port = 0
  /\ running_
  /\ pc[1] = "loop"
  /\ address_ = 1

\* worker w moves a task out of the queue in this step
Dequeues(w) == threads_[w].pc = "lock" /\ threads_'[w].pc = "taken"

\* worker w begins to execute its task in this step
Begins(w) == threads_[w].pc = "taken" /\ threads_'[w].pc = "task"

\* C9: thread_executor dequeues in strict submission order: whatever the
\* pool size and the interleaving of post() calls and workers, the k-th task
\* removed from the queue is the k-th task post() appended, and the queue
\* holds the tasks appended and not yet removed in the order of appending.
C9_DequeueOrder ==
  /\ [](obj = "thread_executor" =>
          tasks_ = [k \in 1..Len(tasks_) |-> posted - Len(tasks_) + k])
  /\ [][\A w \in Workers :
          Dequeues(w) =>
            /\ threads_'[w].task = (posted - Len(tasks_)) + 1
            /\ Len(tasks_') = Len(tasks_) - 1]_vars

\* C9 witness: two workers have removed the first two tasks, the third
\* waits in the queue.
C9_Witness ==
  /\ obj = "thread_executor"
  /\ Len(threads_) >= 2
  /\ {threads_[w].task : w \in Workers} = {1, 2}
  /\ tasks_ = <<3>>

C11_StartNoOp ==
  [][\A t \in Callers :
       (obj = "thread_executor" /\ StartCalled(t) /\ running_) =>
         /\ running_'
         /\ threads_' = threads_
         /\ tasks_' = tasks_
         /\ posted' = posted
         /\ pc' = pc]_vars

\* C11 witness: start() was called on the running executor while a worker
\* executed a task and another task waited in the queue.
C11_Witness ==
  /\ obj = "thread_executor"
  /\ starts[1] = 0 /\ stops = 1 /\ running_
  /\ \E w \in Workers : threads_[w].pc = "task"
  /\ tasks_ # <<>>

\* C12: thread_executor::start() on an executor that is not running (after a
\* stop()) marks it running and spawns N worker loops, which execute the
\* queued and the newly posted tasks again: the call returns to its caller
\* and every element of threads_ is a worker at the top of its loop.
C12_Restart ==
  [][\A t \in Callers :
       (obj = "thread_executor" /\ StartCalled(t) /\ ~running_) =>
         /\ running_'
         /\ pc'[t] = "idle"
         /\ \A w \in Workers : threads_'[w] = [pc |-> "lock", task |-> 0]]_vars

\* every worker has left its loop
AllExited == \A w \in Workers : threads_[w].pc \in {"exited", "joined"}

\* C13: after stop() every worker, waiting on the empty queue or executing a
\* task, eventually leaves its loop, none stays blocked on the condition
\* variable; the destructor (stop() and the join of every worker) terminates.
C13_StopTerminates ==
  /\ (obj = "thread_executor" /\ ~running_) ~> AllExited
  /\ (pc[1] = "dtor_notify_all") ~> (pc[1] = "destroyed")

\* C13 witness: an executor of two or more workers was destroyed, all of its
\* workers joined.
C13_Witness ==
  /\ obj = "thread_executor"
  /\ pc[1] = "destroyed"
  /\ Len(threads_) >= 2
  /\ \A w \in Workers : threads_[w].pc = "joined"
\* the handshake function returns: no error ("ok") or an error
HsReturns(how) == tls_pc \in {"called", "switch", "recv"} /\ tls_pc' = how

\* the owners of the native handles are gone: the program ended, or both
\* wrappers were destroyed
OwnersGone ==
  \/ tls_pc \in {"exited", "returned"}
  \/ tls_pc = "wrappers" /\ DOMAIN handle_ = {}

\* C14: after every context-build call, whatever its status, if the call
\* reported N extra bytes then the first N bytes of the scratch buffer are the
\* last N bytes of the region that was valid before, in the same order, and
\* buffered_len is N; otherwise buffered_len is 0.
C14_LeftoverBookkeeping ==
  [][(tls_pc = "called" /\ tls_pc' = "switch") =>
       IF input_bufs.cbBuffer > 0
         THEN /\ ctx_bufsize' = input_bufs.cbBuffer
              /\ \A i \in 1..input_bufs.cbBuffer :
                   ctx_buffer'[i] = ctx_buffer[ctx_bufsize - input_bufs.cbBuffer + i]
         ELSE ctx_bufsize' = 0]_vars

\* C15: when a context-build call returned 'continue' and reported N extra
\* bytes, the next loop iteration starts with a token buffer that holds
\* exactly those N bytes at offset zero and with buffered_len = N.
C15_LeftoverInvariant ==
  (tls_pc = "loop" /\ status = "SEC_I_CONTINUE_NEEDED" /\ input_bufs.cbBuffer > 0) =>
    /\ ctx_bufsize = input_bufs.cbBuffer
    /\ SubSeq(ctx_buffer, 1, input_bufs.cbBuffer) = input_bufs.bytes

\* C16: the handshake returns no error exactly when a context-build call
\* returned 'complete'; a status other than 'complete' and 'continue' makes it
\* return an error at once, with no send, recv or context-build call after
\* it; a recv that reads nothing or fails returns an error; and nothing is
\* sent, received or built after the return.
C16_HandshakeOutcome ==
  [][/\ HsReturns("ok") <=> (tls_pc = "switch" /\ status = "SEC_E_OK")
     /\ status' = "SEC_E_OK" => tls_pc' \in {"called", "switch", "ok", "returned", "exited"}
     /\ (tls_pc = "switch" /\ status \notin {"SEC_E_OK", "SEC_I_CONTINUE_NEEDED"}) =>
          HsReturns("error") /\ tls_log' = tls_log
     /\ (tls_pc = "recv" /\ tls_log'[Len(tls_log')].result \in {"closed", "error"}) =>
          HsReturns("error")
     /\ tls_pc \in {"ok", "error", "returned", "exited"} => tls_log' = tls_log]_vars

C16_Witness ==
  /\ tls_pc = "error"
  /\ status = "SEC_E_INCOMPLETE_MESSAGE"
  /\ Calls("recv") # {}
  /\ tls_log[Len(tls_log)].call = "InitializeSecurityContext"

\* C17: every credential handle that was acquired and every security context
\* that was built is released exactly once, on every exit path of the
\* handshake and after any sequence of move assignments and destructions of
\* the wrappers: never twice, and not left unreleased when its owners are gone.
C17_ReleasedOnce ==
  /\ \A h \in DOMAIN freed : freed[h] <= 1
  /\ OwnersGone => \A h \in DOMAIN freed : freed[h] = 1
\* the calls the step being taken adds to the log
Made == SubSeq(tls_log', Len(tls_log) + 1, Len(tls_log'))

\* C18: handshake() returns no error iff SSL_connect returns 1, an error
\* labelled 'Controlled' iff it returns 0 and one labelled 'Fatal' iff it
\* returns anything else; when SSL_set_fd fails it returns an error without
\* calling SSL_connect; SSL_connect is called at most once.
C18_HandshakeReturn ==
  [][tls_pc = "handshake" =>
       LET connects == {i \in DOMAIN Made : Made[i].call = "SSL_connect"}
           bound == \E i \in DOMAIN Made : Made[i].call = "SSL_set_fd" /\ Made[i].result = "1"
       IN /\ tls_pc' = "returned"
          /\ Cardinality(connects) <= 1
          /\ ~bound => connects = {} /\ tls_error' \notin {"", "none"}
          /\ tls_error' = "" <=> \E i \in connects : Made[i].n = 1
          /\ tls_error' = "Controlled TLS handshake error" <=>
               \E i \in connects : Made[i].n = 0
          /\ tls_error' = "Fatal TLS handshake error" <=>
               \E i \in connects : Made[i].n \notin {0, 1}]_vars

C18_Witness ==
  /\ obj = "unique_tls_layer"
  /\ tls_pc = "returned"
  /\ tls_error = "Controlled TLS handshake error"
  /\ Cardinality(Calls("SSL_connect")) = 1

\* C19: every SSL_write is issued with the remaining count at the offset
\* n_total - n_remain; a write that would block is issued again unchanged
\* when allow_retry is true and returns an error without another write when
\* it is false; any other failure returns a terminal error; a successful
\* write shortens the remainder by the bytes it took, which are the next
\* bytes of the text; the call returns no error exactly when nothing remains.
C19_WriterRetry ==
  [][tls_pc = "write" =>
       LET blocked == Made # <<>> /\ Made[1].result = "SSL_ERROR_WANT_WRITE"
       IN /\ Made # <<>> =>
               /\ Len(Made) = 1
               /\ Made[1].call = "SSL_write"
               /\ Made[1].n = tls_n_remain
               /\ Len(tls_out) = msglen - tls_n_remain
          /\ (blocked /\ allow_retry_) =>
               /\ tls_pc' = "write"
               /\ tls_n_remain' = tls_n_remain
               /\ tls_out' = tls_out
          /\ (blocked /\ ~allow_retry_) =>
               /\ tls_pc' = "returned"
               /\ tls_error' \notin {"", "none"}
          /\ (Made # <<>> /\ Made[1].result \notin {"ok", "SSL_ERROR_WANT_WRITE"}) =>
               /\ tls_pc' = "returned"
               /\ tls_error' = "TLS write failed"
          /\ (Made # <<>> /\ Made[1].result = "ok") =>
               /\ tls_n_remain' < tls_n_remain
               /\ tls_out' = Prefix(Request, msglen - tls_n_remain')
               /\ tls_pc' = "write"
          /\ (tls_pc' = "returned" /\ tls_error' = "") <=> tls_n_remain = 0
          /\ tls_n_remain = 0 => Made = <<>>]_vars

C19_Witness ==
  /\ obj = "tls_writer"
  /\ tls_pc = "returned"
  /\ tls_error = ""
  /\ msglen = MaxLen
  /\ tls_out = Request
  /\ \E i \in Calls("SSL_write") : tls_log[i].result = "SSL_ERROR_WANT_WRITE"

\* C20: when SSL_read reports would-block-on-read and allow_retry is true the
\* read is issued again, so the call returns only after a read delivered data
\* or failed terminally; with allow_retry false an error is returned at
\* once; after a successful read the reader reads again while bytes are
\* reported pending.
C20_ReaderRetry ==
  [][tls_pc = "read" =>
       LET blocked == Made # <<>> /\ Made[1].result = "SSL_ERROR_WANT_READ"
       IN /\ (blocked /\ allow_retry_) => tls_pc' = "read"
          /\ (tls_pc' = "returned" /\ tls_error' = "") => tls_out' # <<>>
          /\ (blocked /\ ~allow_retry_) =>
               /\ tls_pc' = "returned"
               /\ tls_error' \notin {"", "none"}
          /\ (Len(Made) = 2 /\ Made[1].result = "ok" /\ Made[2].result = "1") =>
               tls_pc' = "read"]_vars
\* C21: after any sequence of constructions, moves (also of an object onto
\* itself), releases and destructions every socket handle has at most one
\* owning object, no handle is closed twice, no object holds a handle that
\* was closed, a released handle is not closed by any object, and once every
\* object is destroyed each handle that was never released was closed once.
C21_SocketOwnership ==
  /\ \A x \in DOMAIN handle_, y \in DOMAIN handle_ :
       (x # y /\ handle_[x] # 0) => handle_[x] # handle_[y]
  /\ \A h \in DOMAIN freed : freed[h] <= 1
  /\ \A x \in DOMAIN handle_ : handle_[x] # 0 => freed[handle_[x]] = 0
  /\ \A h \in Released : freed[h] = 0
  /\ (tls_pc = "sockets" /\ DOMAIN handle_ = {} /\ DOMAIN freed # {}) =>
       \A h \in DOMAIN freed \ Released : freed[h] = 1

\* C22: each iteration of socket_reader::write polls first and performs one
\* read of at most buf_size_ bytes only if the socket is readable; the call
\* returns no error exactly when a poll timed out or a read returned zero
\* bytes, with everything read so far in the sink; the sink holds the chunks
\* read, in order, and nothing that arrived is lost; the call returns an
\* error exactly when a read failed.
C22_ReaderLoop ==
  [][tls_pc = "socket_read" =>
       LET polled == Made # <<>> /\ Made[1].call = "poll"
           did_read == Len(Made) = 2 /\ Made[2].call = "read"
           chunk == SubSeq(Request, Len(tls_out) + 1, Len(tls_out) + Made[2].n)
       IN /\ polled
          /\ Len(Made) <= 2
          /\ did_read <=> Made[1].result = "POLLIN"
          /\ Len(Made) = 2 => did_read
          /\ did_read => Made[2].n <= params.buf_size
          /\ (did_read /\ Made[2].result = "ok") => tls_out' = tls_out \o chunk
          /\ ~(did_read /\ Made[2].result = "ok") => tls_out' = tls_out
          /\ tls_out' \o wire'[1].c2s =
               Prefix(Request, Len(tls_out') + Len(wire'[1].c2s))
          /\ (tls_pc' = "returned" /\ tls_error' = "") <=>
               \/ Made[1].result = "timeout"
               \/ did_read /\ Made[2].result = "ok" /\ Made[2].n = 0
          /\ (tls_pc' = "returned" /\ tls_error' # "") <=>
               (did_read /\ Made[2].result = "error")
          /\ tls_pc' = "socket_read" <=>
               (did_read /\ Made[2].result = "ok" /\ Made[2].n > 0)]_vars

C22_Witness ==
  /\ obj = "socket_reader"
  /\ tls_pc = "returned"
  /\ tls_error = ""
  /\ msglen = MaxLen
  /\ tls_out = Request
  /\ Cardinality({i \in Calls("read") : tls_log[i].n > 0}) >= 2
  /\ tls_log[Len(tls_log)].result = "timeout"

C24_OversizeRejected ==
  [][(/\ msglen > INT_MAX
      /\ \/ tls_pc = "write"
         \/ tls_pc = "socket_write" /\ params.win32) =>
       /\ tls_pc' = "returned"
       /\ tls_error' \notin {"", "none"}
       /\ tls_log = <<>>
       /\ tls_log' = <<>>
       /\ tls_out' = <<>>]_vars

C24_Witness ==
  /\ obj = "socket_writer"
  /\ params.win32
  /\ msglen > INT_MAX
  /\ tls_pc = "returned"
  /\ tls_error = "Message length exceeds max allowed length"
  /\ tls_log = <<>>
  /\ tls_out = <<>>

\* C25: a read or write failure inside a connection thread of echoserver is
\* confined to that thread: the thread ends and closes its socket, the accept
\* loop goes on, the other connection threads are left alone and the process
\* is not terminated.
C25_FailureConfined ==
  [][\A c \in Clients :
       (/\ obj = "echoserver"
        /\ thread[c].pc \in {"read", "write"}
        /\ thread'[c].pc \notin {"read", "write", "finished"}) =>
         /\ wire'[c].sclosed
         /\ pc' = pc
         /\ \A t \in Callers : pc'[t] # "terminated"
         /\ \A d \in Clients \ {c} : thread'[d] = thread[d]]_vars

\* C26: a std::system_error of thread.join() is swallowed when the oldest
\* thread is evicted and when join_threads joins every thread: it does not
\* leave echoserver::start, and join_threads goes through the whole queue.
C26_JoinFailureSwallowed ==
  [][\A t \in Callers :
       (obj = "echoserver" /\ thread_queue_ # <<>>) =>
         /\ pc[t] \in {"join", "join_threads"} => pc'[t] # "throw"
         /\ (pc[t] = "join_threads" /\ pc'[t] = "reset_state") =>
              \A c \in Tracked(thread_queue_) :
                thread[c].pc \in {"joined", "join_failed"}]_vars

\* C27: echoserver::start is thread-safe: at any time at most one caller is
\* past the test of running_, initialising the state, running the accept
\* loop or tearing down.
C27_StartThreadSafe ==
  obj = "echoserver" => Cardinality({t \in Callers : pc[t] \notin Outside}) <= 1

\* C28: whenever a foreground start() of ipv4_server or of echoserver (with
\* at least one thread slot) has stopped, by return or by exception, the
\* listening socket is closed and running() is false.
C28_TeardownOnExit ==
  (/\ OneStarter
   /\ \/ obj = "ipv4_server"
      \/ obj = "echoserver" /\ params.max_concurrency >= 1
   /\ pc[1] \in {"EXIT_SUCCESS", "EXIT_FAILURE", "throw"}) =>
    (socket_ = "bad" /\ ~running_)

\* C29: a stop() called after start(params, true) has returned leads to a
\* state from which on running() is false, the listening socket is closed and
\* bg_thread_ has ended, so that join() and the destructor return.
C29_BackgroundStop ==
  (obj = "ipv4_server" /\ pc[1] = "EXIT_SUCCESS" /\ stops < MaxStops) ~>
    [](~running_ /\ socket_ = "bad" /\ pc[2] \in Outside)

\* C30: every client socket that echoserver::start accepted is, at any time,
\* either held by the accept loop, or held by one running connection thread,
\* or closed: exactly one of the three.
C30_AcceptedSocketOwner ==
  obj = "echoserver" =>
    \A c \in Clients :
      (client[c].pc \notin {"unused", "connect"} /\ c \notin Tracked(pending)) =>
        Cardinality({t \in Callers : cli_socket[t] = c})
          + (IF thread[c].pc \in {"read", "write"} THEN 1 ELSE 0)
          + (IF wire[c].sclosed THEN 1 ELSE 0) = 1

\* C31: in echoserver.h and echoserver.h++ the thread spawned for the k-th
\* accepted socket serves and closes that socket, whenever the thread starts
\* to run; no socket is closed by two threads, and the socket of a thread
\* that has ended is closed.
C31_LegacyThreadSocket ==
  obj \in {"echoserver.h", "echoserver.h++"} =>
    /\ \A k \in DOMAIN handle_ : handle_[k] = k
    /\ \A h \in DOMAIN freed : freed[h] <= 1
    /\ \A k \in Clients : thread[k].pc \in {"finished", "joined"} => freed[k] = 1

\* C32: in the continue branch a scratch buffer that is full after the
\* leftover bookkeeping makes the handshake return an error without a recv;
\* recv is only ever called with room left in the buffer.
C32_FullBufferRefused ==
  [][obj = "httpsclient" =>
       /\ (/\ tls_pc = "switch"
           /\ status = "SEC_I_CONTINUE_NEEDED"
           /\ ctx_bufsize = tls_record_size_limit) =>
            /\ tls_pc' = "error"
            /\ \A i \in 1..Len(Made) : Made[i].call # "recv"
       /\ tls_pc' = "recv" => ctx_bufsize' < tls_record_size_limit
       /\ (\E i \in 1..Len(Made) : Made[i].call = "recv") =>
            (tls_pc = "recv" /\ ctx_bufsize < tls_record_size_limit)]_vars

C32_Witness ==
  /\ obj = "httpsclient"
  /\ tls_pc = "error"
  /\ status = "SEC_I_CONTINUE_NEEDED"
  /\ ctx_bufsize = tls_record_size_limit
  /\ tls_log # <<>>
  /\ tls_log[Len(tls_log)] = Call("FreeContextBuffer", "SEC_E_OK", 0)

\* C33: in the continue case the output token is sent and the output buffer
\* the library allocated is freed exactly once before the iteration goes on
\* or returns, also when the send fails.
C33_OutputTokenFreed ==
  [][(obj = "httpsclient" /\ tls_pc = "switch" /\ status = "SEC_I_CONTINUE_NEEDED") =>
       /\ Made # <<>>
       /\ Made[1].call = "send"
       /\ Cardinality({i \in 1..Len(Made) : Made[i].call = "FreeContextBuffer"}) = 1]_vars

\* C34: ctx_bufsize stays within 0..sizeof ctx_buffer; every recv is given
\* the offset ctx_bufsize and the positive length sizeof ctx_buffer -
\* ctx_bufsize, so it delivers no more than that and leaves the bytes below
\* the offset alone; a recv that delivered n bytes adds n to ctx_bufsize.
C34_BufferBounds ==
  [][obj = "httpsclient" =>
       /\ ctx_bufsize' \in 0..tls_record_size_limit
       /\ tls_pc = "recv" =>
            /\ ctx_bufsize < tls_record_size_limit
            /\ Len(Made) = 1
            /\ Made[1].call = "recv"
            /\ Made[1].n <= tls_record_size_limit - ctx_bufsize
            /\ \A i \in 1..ctx_bufsize : ctx_buffer'[i] = ctx_buffer[i]
            /\ Made[1].result = "ok" =>
                 (Made[1].n > 0 /\ ctx_bufsize' = ctx_bufsize + Made[1].n)
            /\ Made[1].result # "ok" => ctx_bufsize' = ctx_bufsize]_vars

C34_Witness ==
  /\ obj = "httpsclient"
  /\ tls_pc = "loop"
  /\ ctx_bufsize = tls_record_size_limit
  /\ Cardinality({i \in Calls("recv") : tls_log[i].result = "ok"}) >= 2

\* C35: whenever N leftover bytes are shifted to the front of ctx_buffer the
\* source range [ctx_bufsize - N, ctx_bufsize) and the destination range
\* [0, N) do not overlap.
C35_ShiftDisjoint ==
  [][(obj = "httpsclient" /\ tls_pc = "called" /\ input_bufs.cbBuffer > 0) =>
       ctx_bufsize - input_bufs.cbBuffer >= input_bufs.cbBuffer]_vars

\* a task of the queue, by its number
Queued(k) == \E i \in 1..Len(tasks_) : tasks_[i] = k

\* C36: a task posted to a thread_executor with at least one worker is
\* eventually executed by a worker unless the executor is stopped, whether
\* the workers wait, are about to wait or execute another task when post()
\* notifies.
C36_NoLostWakeup ==
  \A k \in 1..MaxTasks :
    (obj = "thread_executor" /\ Len(threads_) >= 1 /\ Queued(k)) ~>
      (~running_ \/ \E w \in Workers : threads_[w].pc = "task" /\ threads_[w].task = k)

C36_Witness ==
  /\ obj = "thread_executor"
  /\ running_
  /\ stops = 1
  /\ tasks_ = <<>>
  /\ posted = MaxTasks
  /\ Len(threads_) = 1
  /\ threads_[1].pc = "task"
  /\ threads_[1].task = MaxTasks
  /\ \A t \in Callers : pc[t] = "idle"

\* C37: a task is in one place only: once in the queue, or moved out by one
\* worker; a worker takes the front task and removes it in the same step
\* under the lock, and no task taken before is taken again; the task runs
\* after the lock was released: while a worker executes a task another
\* worker can take the lock and post() can append.
C37_ExactlyOnce ==
  /\ [](obj = "thread_executor" =>
          /\ \A i, j \in 1..Len(tasks_) : i # j => tasks_[i] # tasks_[j]
          /\ \A v, w \in Workers :
               (v # w /\ threads_[v].task # 0) => threads_[v].task # threads_[w].task
          /\ \A w \in Workers : ~Queued(threads_[w].task)
          /\ \A w \in Workers :
               threads_[w].pc = "task" =>
                 /\ \A v \in Workers \ {w} :
                      threads_[v].pc = "lock" => ENABLED WorkerWait(v)
                 /\ \A t \in Callers :
                      (pc[t] = "idle" /\ Usable /\ posted < MaxTasks) =>
                        ENABLED ExecutorPost(t))
  /\ [][\A w \in Workers :
          /\ Dequeues(w) =>
               /\ threads_'[w].task = TaskFront(tasks_)
               /\ tasks_' = TaskPopFront(tasks_)
               /\ \A v \in Workers : threads_[v].task < threads_'[w].task
               /\ \A v \in Workers \ {w} : threads_'[v] = threads_[v]
          /\ Begins(w) => (threads_'[w].task = threads_[w].task /\ tasks_' = tasks_)]_vars

C37_Witness ==
  /\ obj = "thread_executor"
  /\ Len(threads_) >= 2
  /\ threads_[1].pc = "task" /\ threads_[1].task = 2
  /\ threads_[2].pc = "task" /\ threads_[2].task = 1
  /\ tasks_ = <<3>>
  /\ pc[2] = "notify_one"

\* C38: no worker dequeues while running is false, and a worker that has
\* left its loop stays out of it: the tasks in the queue when stop() takes
\* effect and the tasks posted later stay in the queue, also through the
\* destructor; post() still appends.
C38_StoppedNeverDequeues ==
  [][obj = "thread_executor" =>
       /\ \A w \in Workers : Dequeues(w) => running_
       /\ \A w \in Workers :
            threads_[w].pc \in {"exited", "joined"} =>
              threads_'[w].pc \in {"exited", "joined", "terminated"}
       /\ ~running_ => Prefix(tasks_', Len(tasks_)) = tasks_
       /\ (\E t \in Callers : pc[t] \in {"dtor_notify_all", "dtor_join"}) =>
            tasks_' = tasks_
       /\ \A t \in Callers :
            (pc[t] = "idle" /\ pc'[t] = "notify_one") =>
              tasks_' = TaskPushBack(tasks_, posted + 1)]_vars

C38_Witness ==
  /\ obj = "thread_executor"
  /\ pc[1] = "destroyed"
  /\ stops = 0
  /\ Len(threads_) >= 1
  /\ \A w \in Workers : threads_[w].pc = "joined"
  /\ Len(tasks_) >= 2
  /\ \E w \in Workers : threads_[w].task # 0 \/ posted > Len(tasks_)

\* C39: echoserver::start never calls front() or pop_front() on an empty
\* thread queue: the queue is not empty when the eviction branch is taken,
\* for every max_concurrency, 0 included.
C39_EvictionNonEmpty ==
  (obj = "echoserver" /\ OneStarter) =>
    \A t \in Callers : pc[t] = "join" => thread_queue_ # <<>>

\* results of the actions pdnnet_socket_onlread2 has called
ActionCalls == {i \in DOMAIN tls_log : tls_log[i].call \in {"read_action", "post_action"}}

\* C40: pdnnet_socket_onlread2 returns -EINVAL when read_size is zero; it
\* returns 0 when every read succeeded and every supplied action returned 0,
\* whichever of read_action and post_action are NULL; it returns the
\* negative code of the read or of the action that failed; and the buffer
\* it allocated has been freed once when it returns.
C40_ReturnContract ==
  (obj = "pdnnet_socket_onlread2" /\ tls_pc = "returned") =>
    /\ params.read_size = 0 => tls_out = <<-EINVAL>>
    /\ ( /\ params.read_size # 0
         /\ \A i \in DOMAIN tls_log : tls_log[i].result # "failed"
         /\ \A i \in ActionCalls : tls_log[i].n = 0 ) => tls_out = <<0>>
    /\ \A i \in Calls("read") :
         tls_log[i].result = "failed" => tls_out = <<-tls_log[i].n>>
    /\ \A i \in ActionCalls : tls_log[i].n < 0 => tls_out = <<tls_log[i].n>>
    /\ \A h \in DOMAIN freed : freed[h] = 1

====
